---- MODULE Spec2Model ----
(***************************************************************************)
(* Model of place_macro_core: the token model, the marker registry         *)
(* (Macro::from_name), the builtin operations (Macro::invoke and the       *)
(* functions it dispatches to) and the stack machine of `place`.           *)
(*                                                                         *)
(* A TokenStream is a sequence of TokenTree records.  Text is a TLA+       *)
(* string; a Span is the path of the token in the input of the call        *)
(* (<<2, 1>> is the first token of the group that is the second token of   *)
(* the input), and CallSite is the span of every token the code creates.   *)
(***************************************************************************)
EXTENDS Integers, Sequences, FiniteSets, TLC

VARIABLES
    src,      \* the TokenStream handed to the call (never changes)
    input,    \* place: Vec<(IntoIter, Option<Macro>, Delimiter)>, top last
    res,      \* place: Vec<TokenStream>, top last
    pc,       \* "loop" | "done" | "error" | "panic" ; "call" for a direct call
    result,   \* the TokenStream the call returned (<<>> until it returns)
    origin,   \* history: for each frame of input, the spans of the marker
              \* identifier and of the group that pushed it
    log       \* history: the markers the walk met and the builtins invoked

vars == <<src, input, res, pc, result, origin, log>>

-----------------------------------------------------------------------------
(* Bounds of the checked inputs *)

MaxTokens == 3   \* tokens (groups included) of an exhaustively built input
MaxNest == 2     \* marker calls nested in one another in a built input
MaxCalls == 2    \* direct builtin calls chained in one behaviour
MaxArgs == 7     \* tokens of an argument list: three arguments, their
                 \* commas, a trailing comma and one token too many
MaxText == 4     \* characters of a text argument

-----------------------------------------------------------------------------
(* Token model: proc_macro2::{TokenTree, Ident, Punct, Literal, Group} *)

CallSite == <<>>

Delimiter == {"Parenthesis", "Brace", "Bracket", "None"}

Ident(text, span) == [kind |-> "Ident", text |-> text, span |-> span]

Punct(ch, spacing, span) ==
    [kind |-> "Punct", ch |-> ch, spacing |-> spacing, span |-> span]

\* A literal keeps its source text (repr) and the value litrs decodes from
\* it (val): the unescaped content of a string, the decimal digits of an
\* integer, the re-printed f64 of a float.
Lit(lit, repr, val, span) ==
    [kind |-> "Literal", lit |-> lit, repr |-> repr, val |-> val,
     span |-> span]

Group(delimiter, stream, span) ==
    [kind |-> "Group", delimiter |-> delimiter, stream |-> stream,
     span |-> span]

Char(s, i) == SubSeq(s, i, i)

\* the element of a singleton set: The({ e(v) : v \in {x} }) is e(x), with x
\* evaluated once
The(S) == CHOOSE x \in S : TRUE

RECURSIVE Escape(_)
\* the escaping Literal::string applies to the characters the model uses
Escape(s) ==
    IF s = "" THEN ""
    ELSE LET c == Char(s, 1)
             e == CASE c = "\"" -> "\\\""
                    [] c = "\\" -> "\\\\"
                    [] c = "\n" -> "\\n"
                    [] OTHER -> c
         IN  e \o Escape(Tail(s))

\* Literal::string(s)
StringLit(s) ==
    The({ Lit("String", "\"" \o Escape(v) \o "\"", v, CallSite) : v \in {s} })

RECURSIVE Unspan(_)
\* a TokenStream with every span forgotten (equality of tokens up to spans)
Unspan(ts) ==
    [i \in 1..Len(ts) |->
        IF ts[i].kind = "Group"
        THEN [ts[i] EXCEPT !.span = CallSite, !.stream = Unspan(@)]
        ELSE [ts[i] EXCEPT !.span = CallSite]]

RECURSIVE Spanned(_, _)
\* the TokenStream the host hands over: every token tagged with its path
Spanned(ts, prefix) ==
    [i \in 1..Len(ts) |->
        IF ts[i].kind = "Group"
        THEN [ts[i] EXCEPT !.span = Append(prefix, i),
                           !.stream = Spanned(@, Append(prefix, i))]
        ELSE [ts[i] EXCEPT !.span = Append(prefix, i)]]

-----------------------------------------------------------------------------
(* Diagnostics *)

spanned(tree, span) == [tree EXCEPT !.span = span]

error_at(span, msg) ==
    << Ident("compile_error", span),
       Punct("!", "Alone", CallSite),
       spanned(Group("Parenthesis", <<StringLit(msg)>>, CallSite), span) >>

\* mutant of is_comma: every token that is no literal counts as a comma
is_commaLoose(tree) == tree.kind # "Literal"

is_comma(tree) == tree.kind = "Punct" /\ tree.ch = ","

\* a builtin either returns a TokenStream or panics
Returned(ts) == [panicked |-> FALSE, out |-> ts]
Panicked == [panicked |-> TRUE, out |-> <<>>]

-----------------------------------------------------------------------------
(* String helpers of the Rust standard library, over the ASCII the model uses *)

starts_with(s, p) == Len(s) >= Len(p) /\ SubSeq(s, 1, Len(p)) = p

ends_with(s, p) ==
    Len(s) >= Len(p) /\ SubSeq(s, Len(s) - Len(p) + 1, Len(s)) = p

Upper == "ABCDEFGHIJKLMNOPQRSTUVWXYZ"
Lower == "abcdefghijklmnopqrstuvwxyz"

RECURSIVE IndexOf(_, _, _)
\* the position of character c in s at or after i, 0 when there is none
IndexOf(c, s, i) ==
    IF i > Len(s) THEN 0
    ELSE IF Char(s, i) = c THEN i
    ELSE IndexOf(c, s, i + 1)

UpperChars == { Char(Upper, i) : i \in 1..Len(Upper) }
LowerChars == { Char(Lower, i) : i \in 1..Len(Lower) }

is_uppercase(c) == c \in UpperChars
is_lowercase(c) == c \in LowerChars

\* char::to_lowercase and char::to_uppercase, as tables over the letters
LowerOf == [c \in UpperChars |-> Char(Lower, IndexOf(c, Upper, 1))]
UpperOf == [c \in LowerChars |-> Char(Upper, IndexOf(c, Lower, 1))]

lower_char(c) == IF is_uppercase(c) THEN LowerOf[c] ELSE c
upper_char(c) == IF is_lowercase(c) THEN UpperOf[c] ELSE c

RECURSIVE to_lowercase(_)
to_lowercase(s) ==
    IF s = "" THEN "" ELSE lower_char(Char(s, 1)) \o to_lowercase(Tail(s))

RECURSIVE to_uppercase(_)
to_uppercase(s) ==
    IF s = "" THEN "" ELSE upper_char(Char(s, 1)) \o to_uppercase(Tail(s))

RECURSIVE trim_start_matches(_, _)
trim_start_matches(s, c) ==
    IF s # "" /\ Char(s, 1) = c THEN trim_start_matches(Tail(s), c) ELSE s

RECURSIVE trim_end_matches(_, _)
trim_end_matches(s, c) ==
    IF s # "" /\ Char(s, Len(s)) = c
    THEN trim_end_matches(SubSeq(s, 1, Len(s) - 1), c)
    ELSE s

trim_matches(s, c) == trim_end_matches(trim_start_matches(s, c), c)

-----------------------------------------------------------------------------
(* Marker registry: enum Macro and Macro::from_name *)

NoMacro == [tag |-> "None"]

\* ReplaceNewline, StrReplace and ToCase carry the span of their identifier
Macro(tag, pos) ==
    IF tag \in {"ReplaceNewline", "StrReplace", "ToCase"}
    THEN [tag |-> tag, pos |-> pos]
    ELSE [tag |-> tag]

\* mutant of from_name: every spelling is matched in lower case
from_nameAnyCase(s, pos) ==
    The({ CASE lc = "__ignore__" -> Macro("Ignore", pos)
            [] lc \in {"__identity__", "__id__"} -> Macro("Identity", pos)
            [] lc \in {"__dollar__", "__s__"} -> Macro("Dollar", pos)
            [] lc \in {"__string__", "__str__"} -> Macro("String", pos)
            [] lc \in {"__tocase__", "__to_case__"} -> Macro("ToCase", pos)
            [] OTHER -> NoMacro :
          lc \in {to_lowercase(s)} })

from_name(s, pos) ==
    CASE s = "__ignore__" -> Macro("Ignore", pos)
      [] s \in {"__identity__", "__id__"} -> Macro("Identity", pos)
      [] s \in {"__dollar__", "__s__"} -> Macro("Dollar", pos)
      [] s \in {"__string__", "__str__"} -> Macro("String", pos)
      [] s = "__head__" -> Macro("Head", pos)
      [] s = "__tail__" -> Macro("Tail", pos)
      [] s = "__start__" -> Macro("Start", pos)
      [] s = "__last__" -> Macro("Last", pos)
      [] s = "__reverse__" -> Macro("Reverse", pos)
      [] s \in {"__identifier__", "__ident__"} -> Macro("Identifier", pos)
      [] s \in {"__stringify__", "__strfy__"} -> Macro("Stringify", pos)
      [] s \in {"__replace_newline__", "__repnl__"} ->
            Macro("ReplaceNewline", pos)
      [] s \in {"__str_replace__", "__repstr__"} -> Macro("StrReplace", pos)
      [] OTHER ->
            IF starts_with(s, "__") /\ ends_with(s, "__")
            THEN LET lc == to_lowercase(s)
                 IN  IF lc = "__tocase__" \/ lc = "__to_case__"
                     THEN Macro("ToCase", pos)
                     ELSE NoMacro
            ELSE NoMacro

-----------------------------------------------------------------------------
(* Builtins that only move tokens *)

ignore(ts) == <<>>

identity(ts) == ts

Dollar == Punct("$", "Alone", CallSite)

\* (the message quotes the name with backquotes in the source)
dollar(ts) ==
    IF ts # <<>>
    THEN error_at(ts[1].span, "Macro 'dollar' has no arguments.")
    ELSE <<Dollar>>

\* mutant of head: a group at the front is opened
headFlat(ts) ==
    IF ts = <<>> THEN <<>>
    ELSE IF ts[1].kind = "Group" THEN ts[1].stream
    ELSE <<ts[1]>>

head(ts) == IF ts # <<>> THEN <<ts[1]>> ELSE <<>>

tail(ts) == SubSeq(ts, 2, Len(ts))

RECURSIVE Scan(_, _)
\* input.scan(last, |last, i| { swap(last, i); Some(i) }): every item is
\* exchanged with the one held back, so the item held at the end is dropped
Scan(held, rest) ==
    IF rest = <<>> THEN <<>> ELSE <<held>> \o Scan(rest[1], Tail(rest))

start(ts) == IF ts = <<>> THEN <<>> ELSE Scan(ts[1], Tail(ts))

RECURSIVE Fold(_, _)
\* i.fold(f, |_, c| c)
Fold(acc, rest) == IF rest = <<>> THEN acc ELSE Fold(rest[1], Tail(rest))

last(ts) == IF ts = <<>> THEN <<>> ELSE <<Fold(ts[1], Tail(ts))>>

RECURSIVE reverseDeep(_)
\* mutant of reverse: the contents of the groups are reversed as well
reverseDeep(ts) ==
    [i \in 1..Len(ts) |->
        LET t == ts[Len(ts) + 1 - i]
        IN  IF t.kind = "Group"
            THEN [t EXCEPT !.stream = reverseDeep(t.stream)]
            ELSE t]

reverse(ts) == [i \in 1..Len(ts) |-> ts[Len(ts) + 1 - i]]

-----------------------------------------------------------------------------
(* Literal decoding and concatenation: token_concat, string, identifier *)

U128Max == "340282366920938463463374607431768211455"

Digits == "0123456789"

RECURSIVE DigitsLeq(_, _)
\* a <= b for two digit strings of the same length
DigitsLeq(a, b) ==
    IF a = "" THEN TRUE
    ELSE LET x == IndexOf(Char(a, 1), Digits, 1)
             y == IndexOf(Char(b, 1), Digits, 1)
         IN  IF x # y THEN x < y ELSE DigitsLeq(Tail(a), Tail(b))

\* IntegerLit::value::<u128>() is Some: digits are the decimal digits of the
\* literal's value, without leading zeros
FitsU128(digits) ==
    \/ Len(digits) < Len(U128Max)
    \/ Len(digits) = Len(U128Max) /\ DigitsLeq(digits, U128Max)

\* v.number_part().parse::<f64>() is Ok: the digit separator is not
\* accepted by the f64 parser
ParsesF64(number_part) == IndexOf("_", number_part, 1) = 0

RECURSIVE token_concatFlat(_)
\* mutant of token_concat: the groups are not entered
token_concatFlat(ts) ==
    IF ts = <<>> THEN Returned("")
    ELSE LET t == ts[1]
             rest == token_concatFlat(Tail(ts))
         IN  Returned((IF t.kind = "Ident" THEN t.text
                       ELSE IF t.kind = "Literal" THEN t.val
                       ELSE "") \o rest.out)

RECURSIVE token_concat(_)
\* the walk is depth first, left to right; the first failing literal panics
token_concat(ts) ==
    IF ts = <<>> THEN Returned("")
    ELSE LET t == ts[1]
             first ==
                CASE t.kind = "Group" -> token_concat(t.stream)
                  [] t.kind = "Ident" -> Returned(t.text)
                  [] t.kind = "Punct" -> Returned("")
                  [] t.kind = "Literal" ->
                        CASE t.lit = "Integer" ->
                                IF FitsU128(t.val) THEN Returned(t.val)
                                ELSE Panicked
                          [] t.lit = "Float" ->
                                IF ParsesF64(t.repr) THEN Returned(t.val)
                                ELSE Panicked
                          [] t.lit \in {"Byte", "ByteString"} ->
                                Returned(t.repr)
                          [] OTHER -> Returned(t.val)
         IN  IF first.panicked THEN Panicked
             ELSE LET rest == token_concat(Tail(ts))
                  IN  IF rest.panicked THEN Panicked
                      ELSE Returned(first.out \o rest.out)

Letters == Upper \o Lower \o "_"

\* the characters an identifier starts with, and those it goes on with
IdentStart == { Char(Letters, i) : i \in 1..Len(Letters) }
IdentChars == IdentStart \cup { Char(Digits, i) : i \in 1..Len(Digits) }

RECURSIVE AllIn(_, _)
AllIn(s, alphabet) ==
    s = "" \/ (Char(s, 1) \in alphabet /\ AllIn(Tail(s), alphabet))

\* Ident::new panics on text that is not an identifier
ValidIdent(s) ==
    /\ s # ""
    /\ Char(s, 1) \in IdentStart
    /\ AllIn(s, IdentChars)

NewIdent(s) ==
    The({ IF ValidIdent(v) THEN Returned(<<Ident(v, CallSite)>>) ELSE Panicked :
          v \in {s} })

string(ts) ==
    The({ IF r.panicked THEN Panicked ELSE Returned(<<StringLit(r.out)>>) :
          r \in {token_concat(ts)} })

identifier(ts) ==
    The({ IF r.panicked THEN Panicked ELSE NewIdent(r.out) :
          r \in {token_concat(ts)} })

-----------------------------------------------------------------------------
(* stringify: TokenStream::to_string *)

RECURSIVE Display(_, _, _)
\* tokens from position i on; joint: the token before was a Joint Punct
Display(ts, i, joint) ==
    IF i > Len(ts) THEN ""
    ELSE LET t == ts[i]
             sep == IF i # 1 /\ ~joint THEN " " ELSE ""
             txt ==
                CASE t.kind = "Ident" -> t.text
                  [] t.kind = "Punct" -> t.ch
                  [] t.kind = "Literal" -> t.repr
                  [] t.kind = "Group" ->
                        LET inner == Display(t.stream, 1, FALSE)
                        IN  CASE t.delimiter = "Parenthesis" ->
                                    "(" \o inner \o ")"
                              [] t.delimiter = "Bracket" ->
                                    "[" \o inner \o "]"
                              [] t.delimiter = "Brace" ->
                                    IF t.stream = <<>> THEN "{ }"
                                    ELSE "{ " \o inner \o " }"
                              [] OTHER -> inner
         IN  sep \o txt
                 \o Display(ts, i + 1, t.kind = "Punct" /\ t.spacing = "Joint")

stringify(ts) == <<StringLit(Display(ts, 1, FALSE))>>

-----------------------------------------------------------------------------
(* String arguments: get_str_lit, replace_newline, str_replace *)

None == [some |-> FALSE, val |-> ""]
Some(v) == [some |-> TRUE, val |-> v]

RECURSIVE get_str_litFirst(_)
\* mutant of get_str_lit: a group is read by its first token
get_str_litFirst(tt) ==
    CASE tt.kind = "Group" ->
            IF Len(tt.stream) >= 1 THEN get_str_litFirst(tt.stream[1])
            ELSE None
      [] tt.kind = "Literal" ->
            IF tt.lit = "String" THEN Some(tt.val) ELSE None
      [] OTHER -> None

RECURSIVE get_str_lit(_)
get_str_lit(tt) ==
    CASE tt.kind = "Group" ->
            IF Len(tt.stream) = 1 THEN get_str_lit(tt.stream[1]) ELSE None
      [] tt.kind = "Literal" ->
            IF tt.lit = "String" THEN Some(tt.val) ELSE None
      [] OTHER -> None

is_whitespace(c) == c \in {" ", "\n", "\t", "\r"}

RECURSIVE SkipSpaces(_)
\* mutant of SkipWhitespace: only spaces are skipped
SkipSpaces(s) ==
    IF s # "" /\ Char(s, 1) = " " THEN SkipSpaces(Tail(s)) ELSE s

RECURSIVE SkipWhitespace(_)
\* for c in i.by_ref(): the rest of the text from its first character that
\* is not whitespace (that character is pushed by the caller's next step)
SkipWhitespace(s) ==
    IF s # "" /\ is_whitespace(Char(s, 1)) THEN SkipWhitespace(Tail(s)) ELSE s

RECURSIVE ReplaceNewlines(_, _)
\* the character loop of replace_newline
ReplaceNewlines(s, r) ==
    IF s = "" THEN ""
    ELSE IF Char(s, 1) # "\n"
    THEN Char(s, 1) \o ReplaceNewlines(Tail(s), r)
    ELSE LET rest == SkipWhitespace(Tail(s))
         IN  IF rest = "" THEN r
             ELSE r \o Char(rest, 1) \o ReplaceNewlines(Tail(rest), r)

replace_newline(in, pos) ==
    LET n == Len(in) IN
    IF n = 0 THEN error_at(pos, "Expected two arguments, got 0")
    ELSE IF n = 1 THEN error_at(pos, "Expected more arguments")
    ELSE IF ~is_comma(in[2]) THEN error_at(in[2].span, "Expected comma.")
    ELSE IF n = 2 THEN error_at(pos, "Expected two arguments, got 1")
    ELSE IF n >= 4 /\ ~is_comma(in[4])
    THEN error_at(in[4].span, "Unexpected token in macro invocation")
    ELSE IF n >= 5 THEN error_at(in[5].span, "Macro takes only 2 arguments")
    ELSE LET s == get_str_lit(in[1])
             r == get_str_lit(in[3])
         IN  IF ~s.some THEN error_at(in[1].span, "Expected string literal")
             ELSE IF ~r.some
             THEN error_at(in[3].span, "Expected string literal")
             ELSE <<StringLit(ReplaceNewlines(s.val, r.val))>>

RECURSIVE Replace(_, _, _)
\* str::replace for a pattern that is not empty
Replace(s, from, to) ==
    IF s = "" THEN ""
    ELSE IF starts_with(s, from)
    THEN to \o Replace(SubSeq(s, Len(from) + 1, Len(s)), from, to)
    ELSE Char(s, 1) \o Replace(Tail(s), from, to)

RECURSIVE Intersperse(_, _)
\* str::replace for the empty pattern, which matches before every character
\* and at the end
Intersperse(s, to) ==
    IF s = "" THEN to ELSE to \o Char(s, 1) \o Intersperse(Tail(s), to)

str_replace(in, pos) ==
    LET n == Len(in) IN
    IF n = 0 THEN error_at(pos, "Expected 3 arguments, got 0")
    ELSE IF n = 1 THEN error_at(pos, "Expected more arguments")
    ELSE IF ~is_comma(in[2]) THEN error_at(in[2].span, "Expected comma.")
    ELSE IF n = 2 THEN error_at(pos, "Expected 3 arguments, got 1")
    ELSE IF n = 3 THEN error_at(pos, "Expected more arguments")
    ELSE IF ~is_comma(in[4]) THEN error_at(in[4].span, "Expected comma.")
    ELSE IF n = 4 THEN error_at(pos, "Expected 3 arguments, got 2")
    ELSE IF n >= 6 /\ ~is_comma(in[6])
    THEN error_at(in[6].span, "Unexpected token in macro invocation")
    ELSE IF n >= 7 THEN error_at(in[7].span, "Macro takes only 3 arguments")
    ELSE LET s == get_str_lit(in[1])
             f == get_str_lit(in[3])
             t == get_str_lit(in[5])
         IN  IF ~s.some THEN error_at(in[1].span, "Expected string literal")
             ELSE IF ~f.some
             THEN error_at(in[3].span, "Expected string literal")
             ELSE IF ~t.some
             THEN error_at(in[5].span, "Expected string literal")
             ELSE <<StringLit(IF f.val = "" THEN Intersperse(s.val, t.val)
                              ELSE Replace(s.val, f.val, t.val))>>

-----------------------------------------------------------------------------
(* Case conversion: to_case, get_case and the convert_case crate *)

is_digit(c) == IndexOf(c, Digits, 1) # 0
is_letter(c) == is_uppercase(c) \/ is_lowercase(c)

RECURSIVE SplitWords(_, _)
\* convert_case's default boundaries: the delimiters ('_', '-', ' ', which
\* are dropped), lower|Upper, the acronym boundary Upper|Upper-lower and a
\* letter next to a digit; cur is the word being collected
SplitWords(s, cur) ==
    LET done == IF cur = "" THEN <<>> ELSE <<cur>> IN
    IF s = "" THEN done
    ELSE LET c == Char(s, 1) IN
         IF c \in {"_", "-", " "} THEN done \o SplitWords(Tail(s), "")
         ELSE LET prev == IF cur = "" THEN "" ELSE Char(cur, Len(cur))
                  next == IF Len(s) >= 2 THEN Char(s, 2) ELSE ""
                  boundary ==
                    /\ cur # ""
                    /\ \/ is_lowercase(prev) /\ is_uppercase(c)
                       \/ is_uppercase(prev) /\ is_uppercase(c)
                            /\ is_lowercase(next)
                       \/ is_letter(prev) /\ is_digit(c)
                       \/ is_digit(prev) /\ is_letter(c)
              IN  IF boundary THEN <<cur>> \o SplitWords(Tail(s), c)
                  ELSE SplitWords(Tail(s), cur \o c)

Capitalize(w) == upper_char(Char(w, 1)) \o to_lowercase(Tail(w))

RECURSIVE Join(_, _)
Join(words, sep) ==
    IF words = <<>> THEN ""
    ELSE IF Len(words) = 1 THEN words[1]
    ELSE words[1] \o sep \o Join(Tail(words), sep)

\* i.to_case(case)
Casing(i, case) ==
    The({ LET lower == [k \in 1..Len(w) |-> to_lowercase(w[k])]
              upper == [k \in 1..Len(w) |-> to_uppercase(w[k])]
              capital == [k \in 1..Len(w) |-> Capitalize(w[k])]
              camel == [k \in 1..Len(w) |->
                          IF k = 1 THEN to_lowercase(w[k])
                          ELSE Capitalize(w[k])]
          IN  CASE case = "UpperFlat" -> Join(upper, "")
                [] case = "Flat" -> Join(lower, "")
                [] case = "Camel" -> Join(camel, "")
                [] case = "Pascal" -> Join(capital, "")
                [] case = "Snake" -> Join(lower, "_")
                [] case = "UpperSnake" -> Join(upper, "_") :
          w \in {SplitWords(i, "")} })

\* Some(text), or None where the source panics
get_case(spec, i) ==
    CASE spec = "TOCASE" -> Some(Casing(i, "UpperFlat"))
      [] spec = "tocase" -> Some(Casing(i, "Flat"))
      [] spec = "toCase" -> Some(Casing(i, "Camel"))
      [] spec = "ToCase" -> Some(Casing(i, "Pascal"))
      [] spec = "to_case" -> Some(Casing(i, "Snake"))
      [] spec = "TO_CASE" -> Some(Casing(i, "UpperSnake"))
      [] OTHER -> None

to_case(in, pos) ==
    LET n == Len(in) IN
    IF n = 0 THEN Returned(error_at(pos, "Expected 2 arguments."))
    ELSE IF n = 1 THEN Returned(error_at(pos, "Expected more arguments"))
    ELSE IF ~is_comma(in[2])
    THEN Returned(error_at(in[2].span, "Expected comma."))
    ELSE IF n = 2 THEN Returned(error_at(pos, "Expected 2 arguments"))
    ELSE IF n >= 4 /\ ~is_comma(in[4])
    THEN Returned(error_at(in[4].span, "Unexpected token in macro invocation"))
    ELSE IF n >= 5
    THEN Returned(error_at(in[5].span, "Macro takes only 2 arguments"))
    ELSE LET dst == get_str_lit(in[1]) IN
         IF ~dst.some
         THEN Returned(error_at(in[1].span, "Expected string literal"))
         ELSE IF in[3].kind # "Ident"
         THEN Returned(error_at(in[3].span, "Expected identifier"))
         ELSE The({ IF ~s.some THEN Panicked ELSE NewIdent(s.val) :
                    s \in {get_case(dst.val, in[3].text)} })

-----------------------------------------------------------------------------
(* Macro::invoke *)

invoke(m, in) ==
    CASE m.tag = "Ignore" -> Returned(ignore(in))
      [] m.tag = "Identity" -> Returned(identity(in))
      [] m.tag = "Dollar" -> Returned(dollar(in))
      [] m.tag = "String" -> string(in)
      [] m.tag = "Head" -> Returned(head(in))
      [] m.tag = "Tail" -> Returned(tail(in))
      [] m.tag = "Start" -> Returned(start(in))
      [] m.tag = "Last" -> Returned(last(in))
      [] m.tag = "Reverse" -> Returned(reverse(in))
      [] m.tag = "Identifier" -> identifier(in)
      [] m.tag = "Stringify" -> Returned(stringify(in))
      [] m.tag = "ReplaceNewline" -> Returned(replace_newline(in, m.pos))
      [] m.tag = "StrReplace" -> Returned(str_replace(in, m.pos))
      [] m.tag = "ToCase" -> to_case(in, m.pos)

-----------------------------------------------------------------------------
(* The inputs of the checked calls *)

\* the tokens of the exhaustively built inputs: one spelling for each way
\* place treats a marker, and an identifier, a comma and a string
Atoms ==
    { Ident(n, CallSite) :
        n \in {"__ignore__", "__id__", "__s__", "__string__", "__repnl__",
               "__ToCase__", "my_var"} }
    \cup { Punct(",", "Alone", CallSite),
           Lit("String", "\"a\\nb\"", "a\nb", CallSite) }

\* tokens of marker-free inputs: a fenced identifier that is no marker,
\* joint punctuation, a literal that is not a string
OtherAtoms ==
    { Ident("__STRING__", CallSite),
      Punct("+", "Joint", CallSite),
      Punct("=", "Alone", CallSite),
      Lit("Integer", "0x2F", "47", CallSite) }

RECURSIVE Forests(_, _, _)
\* every TokenStream of at most n tokens (a group counts as one token plus
\* its contents) over the given atoms and delimiters
Forests(n, atoms, delims) ==
    IF n = 0 THEN {<<>>}
    ELSE {<<>>}
         \cup { <<a>> \o f : a \in atoms, f \in Forests(n - 1, atoms, delims) }
         \cup UNION { UNION {
                { <<Group(d, c, CallSite)>> \o f :
                    c \in Forests(k, atoms, delims),
                    f \in Forests(n - 1 - k, atoms, delims) }
                : k \in 0..(n - 1) } : d \in delims }

IntLit(n) == Lit("Integer", n, n, CallSite)
CallOf(name, args) ==
    <<Ident(name, CallSite), Group("Parenthesis", args, CallSite)>>

\* marker spellings of the nested calls: every special case of place and
\* builtins that fail or panic on some argument
NestedNames ==
    {"__identity__", "__string__", "__ident__", "__head__", "__reverse__",
     "__repstr__", "__to_case__", "__TOcase__"}

Leaves ==
    { <<>>,
      <<Ident("my_var", CallSite)>>,
      <<Ident("__dollar__", CallSite)>>,
      <<Lit("Integer", "340282366920938463463374607431768211456",
            "340282366920938463463374607431768211456", CallSite)>>,
      <<Lit("String", "\"a\"", "a", CallSite),
        Punct(",", "Alone", CallSite),
        Lit("String", "\"a\"", "a", CallSite)>> }

RECURSIVE Nested(_)
\* calls nested at most k deep: M(...) and __ignore__ M(...)
Nested(k) ==
    IF k = 0 THEN Leaves
    ELSE Nested(k - 1)
         \cup { p \o CallOf(n, c) :
                  p \in {<<>>, <<Ident("__ignore__", CallSite)>>},
                  n \in NestedNames,
                  c \in Nested(k - 1) }

\* the marker spellings a call can be deferred to
DeferredNames ==
    { "__ignore__", "__identity__", "__id__", "__string__", "__str__",
      "__head__", "__tail__", "__start__", "__last__", "__reverse__",
      "__identifier__", "__ident__", "__stringify__", "__strfy__",
      "__replace_newline__", "__repnl__", "__str_replace__", "__repstr__",
      "__to_case__", "__ToCase__" }

\* the arguments of a deferred call: plain tokens and dollar markers
DeferredArgs ==
    { <<>>,
      <<Ident("my_var", CallSite)>>,
      <<Ident("__dollar__", CallSite)>>,
      <<Ident("my_var", CallSite), Ident("__s__", CallSite)>>,
      <<Lit("String", "\"a\"", "a", CallSite),
        Punct(",", "Alone", CallSite),
        Lit("String", "\"a\"", "a", CallSite)>> }

\* __identity__(M)(args), __id__(M)[args] and __id__(M){args}
Deferred ==
    { CallOf(i, <<Ident(n, CallSite)>>) \o <<Group(d, a, CallSite)>> :
        i \in {"__identity__", "__id__"}, n \in DeferredNames,
        d \in {"Parenthesis", "Bracket", "Brace"}, a \in DeferredArgs }

Comma == Punct(",", "Alone", CallSite)

\* the forms of an argument that has to be a string: the literal, the
\* literal in a none-delimited group (a metavariable of the host), in two
\* groups, an empty group, a group of two literals, an identifier, an
\* integer and an identifier in a group
ArgForms ==
    LET S == StringLit("ToCase")
        I == Ident("my_var", CallSite)
    IN  { S,
          Group("None", <<S>>, CallSite),
          Group("Parenthesis", <<Group("Brace", <<S>>, CallSite)>>, CallSite),
          Group("Bracket", <<>>, CallSite),
          Group("None", <<S, S>>, CallSite),
          I,
          Lit("Integer", "47", "47", CallSite),
          Group("Parenthesis", <<I>>, CallSite) }

\* lists of two arguments, and of three with the third a literal or an
\* identifier
UnwrapArgs ==
    { <<f, Comma, g>> : f \in ArgForms, g \in ArgForms }
    \cup { <<f, Comma, g, Comma, h>> :
             f \in ArgForms, g \in ArgForms,
             h \in {StringLit("ToCase"), Ident("my_var", CallSite)} }

\* __repnl__(f, g) and __repstr__("ToCase", g, h)
UnwrapCalls ==
    { CallOf(IF Len(a) = 3 THEN "__repnl__" ELSE "__repstr__", a) :
        a \in { b \in UnwrapArgs : Len(b) = 3 \/ b[1] = StringLit("ToCase") } }

\* __ignore__ M (args) rest, at the top, in a brace group and in the
\* argument list of __string__[..]
IgnoreCalls ==
    LET I == Ident("my_var", CallSite)
        merged == { <<Ident("__ignore__", CallSite)>> \o CallOf(n, a) \o r :
                      n \in {"__head__", "__id__", "__ToCase__", "__ignore__"},
                      a \in {<<>>, <<I, Ident("__s__", CallSite)>>},
                      r \in {<<>>, <<I>>} }
    IN  merged
        \cup { <<Group("Brace", m, CallSite)>> : m \in merged }
        \cup { <<Ident("__string__", CallSite), Group("Bracket", m, CallSite)>> :
                 m \in merged }

\* spellings close to the ones of the registry: another letter case, a
\* broken fence, and spellings of the case conversion family
NearNames ==
    { "__STRING__", "__Id__", "__S__", "__Dollar__", "__Str__", "__Strfy__",
      "__Ident__", "__REPNL__", "__RepStr__", "__Identity__", "__Ignore__",
      "__Replace_Newline__", "__tocase__", "__TOCASE__", "__To_Case__",
      "__to_Case__", "__to__case__", "_tocase_", "__tocase", "to_case__",
      "____" }

\* a spelling alone, and a spelling followed by a group
NearCalls ==
    { <<Ident(n, CallSite)>> \o g :
        n \in NearNames,
        g \in { <<>>, <<Group("Parenthesis", <<Ident("my_var", CallSite)>>,
                                CallSite)>> } }

\* the six case specifiers
CaseSpecs == {"TOCASE", "tocase", "toCase", "ToCase", "to_case", "TO_CASE"}

\* __X__(ident) for the six specifiers X
CaseCalls ==
    { CallOf("__" \o X \o "__", <<Ident(i, CallSite)>>) :
        X \in CaseSpecs, i \in {"my_var", "myVar"} }

\* place!(__string__(1 __string__(2 __identity__(3 __string__(4)))))
DocExample ==
    CallOf("__string__", <<IntLit("1")>> \o
        CallOf("__string__", <<IntLit("2")>> \o
            CallOf("__identity__", <<IntLit("3")>> \o
                CallOf("__string__", <<IntLit("4")>>))))

-----------------------------------------------------------------------------
(* place: the state of the loop *)

Frame(it, m, d) == [it |-> it, m |-> m, d |-> d]

Origin(at, group) == [at |-> at, group |-> group]

\* let mut input = vec![(input.into_iter(), None, Delimiter::None)];
\* let mut res = vec![TokenStream::new()];
Start(ts) ==
    /\ src = Spanned(ts, CallSite)
    /\ input = <<Frame(src, NoMacro, "None")>>
    /\ res = << <<>> >>
    /\ pc = "loop"
    /\ result = <<>>
    /\ origin = <<Origin(CallSite, CallSite)>>
    /\ log = <<>>

\* the call is made on one of the inputs: a stream of at most MaxTokens
\* tokens, by its first token, or calls nested at most MaxNest deep
StartForest(atoms, delims) ==
    \/ \E a \in atoms, f \in Forests(MaxTokens - 1, atoms, delims) :
            Start(<<a>> \o f)
    \/ \E d \in delims, k \in 0..(MaxTokens - 1) :
            \E c \in Forests(k, atoms, delims),
               f \in Forests(MaxTokens - 1 - k, atoms, delims) :
                Start(<<Group(d, c, CallSite)>> \o f)

Init ==
    \/ StartForest(Atoms, {"Parenthesis", "None"})
    \/ StartForest(OtherAtoms, {"Bracket", "Brace"})
    \/ \E ts \in Nested(MaxNest - 1) \cup {DocExample} : Start(ts)
    \/ \E ts \in Deferred \cup CaseCalls \cup NearCalls \cup UnwrapCalls
                    \cup IgnoreCalls :
            Start(ts)
    \/ \E p \in {<<>>, <<Ident("__ignore__", CallSite)>>},
          n \in NestedNames, c \in Nested(MaxNest - 1) :
            Start(p \o CallOf(n, c))

Top == input[Len(input)]

Pop(stack) == SubSeq(stack, 1, Len(stack) - 1)

\* the top frame after k calls of i.next()
Advance(k) ==
    [input EXCEPT ![Len(input)].it = SubSeq(@, k + 1, Len(@))]

\* res.last_mut().expect(..).extend(ts)
Extend(stack, ts) == [stack EXCEPT ![Len(stack)] = @ \o ts]

\* mutant of Rebuild: the delimiter of the frame is not used
RebuildParenthesis(d, t) == Group("Parenthesis", t, CallSite)

\* Group::new(*d, t)
Rebuild(d, t) == Group(d, t, CallSite)

\* a failed expect or a panic inside a builtin unwinds the call
Panic ==
    /\ pc' = "panic"
    /\ UNCHANGED <<src, input, res, result, origin, log>>

\* mutant of ReturnError: the diagnostic is attributed to the call site
ReturnErrorAtCallSite(span, msg, events) ==
    /\ pc' = "error"
    /\ result' = error_at(CallSite, msg)
    /\ log' = log \o events
    /\ UNCHANGED <<src, input, res, origin>>

\* return error_at(span, msg)
ReturnError(span, msg, events) ==
    /\ pc' = "error"
    /\ result' = error_at(span, msg)
    /\ log' = log \o events
    /\ UNCHANGED <<src, input, res, origin>>

Running == pc = "loop" /\ input # <<>>

AtEnd == Running /\ Top.it = <<>>

HasNext == Running /\ Top.it # <<>>

Next1 == Top.it[1]


\* the walk met the marker identifier at span `at`; how: "placed" (dollar),
\* "pushed" (a frame waits for the group at span `group`), "spliced"
\* (identity), "dropped" (ignore before an identifier, and that identifier)
\* or "error"
MarkerEv(at, tag, how, group) ==
    [ev |-> "marker", at |-> at, tag |-> tag, how |-> how, group |-> group]

\* the call before this one was made on arg and returned out
PassEv(arg, out) ==
    [ev |-> "pass", at |-> CallSite, group |-> CallSite, tag |-> "Place",
     arg |-> arg, out |-> out]

\* the builtin of the marker at span `at` was invoked on arg and returned
\* out; rest is what the cursor of its frame still held
InvokeEv(o, tag, arg, out, rest) ==
    [ev |-> "invoke", at |-> o.at, group |-> o.group, tag |-> tag,
     arg |-> arg, out |-> out, rest |-> rest]

-----------------------------------------------------------------------------
(* place: one action for each way through one iteration of the loop *)

\* mutant of InvokePending: the result of the builtin is walked again
InvokeRescan ==
    /\ AtEnd /\ Top.m # NoMacro
    /\ IF Len(res) < 2 THEN Panic
       ELSE LET t == res[Len(res)]
                r == invoke(Top.m, t)
                up == Pop(input)
            IN  IF r.panicked THEN Panic
                ELSE /\ res' = Pop(res)
                     /\ input' = [up EXCEPT ![Len(up)].it = r.out \o @]
                     /\ origin' = Pop(origin)
                     /\ log' = Append(log,
                            InvokeEv(origin[Len(origin)], Top.m.tag, t, r.out,
                                     Top.it))
                     /\ UNCHANGED <<src, pc, result>>

\* the cursor of a frame with a pending marker is exhausted: the builtin is
\* invoked on the frame's accumulator, its result goes to the parent's
InvokePending ==
    /\ AtEnd /\ Top.m # NoMacro
    /\ IF Len(res) < 2 THEN Panic     \* expect("1"), expect("2")
       ELSE LET t == res[Len(res)]
                r == invoke(Top.m, t)
            IN  IF r.panicked THEN Panic
                ELSE /\ res' = Extend(Pop(res), r.out)
                     /\ input' = Pop(input)
                     /\ origin' = Pop(origin)
                     /\ log' = Append(log,
                            InvokeEv(origin[Len(origin)], Top.m.tag, t, r.out,
                                     Top.it))
                     /\ UNCHANGED <<src, pc, result>>

\* mutant of CloseGroup: the accumulator joins the parent's as it is
CloseGroupInline ==
    /\ AtEnd /\ Top.m = NoMacro /\ Len(res) # 1
    /\ res' = Extend(Pop(res), res[Len(res)])
    /\ input' = Pop(input)
    /\ origin' = Pop(origin)
    /\ UNCHANGED <<src, pc, result, log>>

\* the cursor of a plain group's frame is exhausted: the accumulator is
\* wrapped in a group with the frame's delimiter
CloseGroup ==
    /\ AtEnd /\ Top.m = NoMacro /\ Len(res) # 1
    /\ IF Len(res) < 2 THEN Panic     \* expect("3"), expect("4")
       ELSE /\ res' = Extend(Pop(res), <<Rebuild(Top.d, res[Len(res)])>>)
            /\ input' = Pop(input)
            /\ origin' = Pop(origin)
            /\ UNCHANGED <<src, pc, result, log>>

\* the cursor of the last frame is exhausted
CloseLast ==
    /\ AtEnd /\ Top.m = NoMacro /\ Len(res) = 1
    /\ input' = Pop(input)
    /\ origin' = Pop(origin)
    /\ UNCHANGED <<src, res, pc, result, log>>

\* no frame is left: res.pop().expect("8")
Return ==
    /\ pc = "loop" /\ input = <<>>
    /\ IF res = <<>> THEN Panic
       ELSE /\ result' = res[Len(res)]
            /\ res' = Pop(res)
            /\ pc' = "done"
            /\ UNCHANGED <<src, input, origin, log>>

\* mutant of EnterGroup: the group's tokens go to the accumulator of the
\* enclosing frame
EnterGroupShared ==
    /\ HasNext /\ Next1.kind = "Group"
    /\ input' = Append(Advance(1), Frame(Next1.stream, NoMacro, Next1.delimiter))
    /\ origin' = Append(origin, Origin(CallSite, Next1.span))
    /\ UNCHANGED <<src, res, pc, result, log>>

EnterGroup ==
    /\ HasNext /\ Next1.kind = "Group"
    /\ input' = Append(Advance(1), Frame(Next1.stream, NoMacro, Next1.delimiter))
    /\ res' = Append(res, <<>>)
    /\ origin' = Append(origin, Origin(CallSite, Next1.span))
    /\ UNCHANGED <<src, pc, result, log>>

\* punctuation or a literal
PassToken ==
    /\ HasNext /\ Next1.kind \in {"Punct", "Literal"}
    /\ IF res = <<>> THEN Panic       \* expect("5")
       ELSE /\ res' = Extend(res, <<Next1>>)
            /\ input' = Advance(1)
            /\ UNCHANGED <<src, pc, result, origin, log>>

IsMarker(t) == t.kind = "Ident" /\ from_name(t.text, t.span) # NoMacro

RECURSIVE HasMarker(_)
\* some identifier of the stream, at any depth, is a marker of the registry
HasMarker(ts) ==
    \E i \in 1..Len(ts) :
        IF ts[i].kind = "Group" THEN HasMarker(ts[i].stream)
        ELSE IsMarker(ts[i])

\* the marker the walk is at, when the next token is a marker identifier
Here == from_name(Next1.text, Next1.span)

PassIdent ==
    /\ HasNext /\ Next1.kind = "Ident" /\ ~IsMarker(Next1)
    /\ IF res = <<>> THEN Panic       \* expect("6")
       ELSE /\ res' = Extend(res, <<Next1>>)
            /\ input' = Advance(1)
            /\ UNCHANGED <<src, pc, result, origin, log>>

\* mutant of PlaceDollar: a group after the marker is taken as its
\* argument list
PlaceDollarCall ==
    /\ HasNext /\ IsMarker(Next1) /\ Here.tag = "Dollar"
    /\ res' = Extend(res, dollar(<<>>))
    /\ input' = Advance(IF Len(Top.it) > 1 /\ Top.it[2].kind = "Group"
                        THEN 2 ELSE 1)
    /\ log' = log \o
            <<MarkerEv(Next1.span, "Dollar", "placed", CallSite),
              InvokeEv(Origin(Next1.span, CallSite), "Dollar", <<>>,
                       dollar(<<>>), <<>>)>>
    /\ UNCHANGED <<src, pc, result, origin>>

PlaceDollar ==
    /\ HasNext /\ IsMarker(Next1) /\ Here.tag = "Dollar"
    /\ IF res = <<>> THEN Panic       \* expect("7")
       ELSE /\ res' = Extend(res, dollar(<<>>))
            /\ input' = Advance(1)
            /\ log' = log \o
                    <<MarkerEv(Next1.span, "Dollar", "placed", CallSite),
                      InvokeEv(Origin(Next1.span, CallSite), "Dollar", <<>>,
                               dollar(<<>>), <<>>)>>
            /\ UNCHANGED <<src, pc, result, origin>>

\* a marker other than dollar is next; After is what follows it
AtMarker == HasNext /\ IsMarker(Next1) /\ Here.tag # "Dollar"

After == Tail(Top.it)

ExpectedGroupAtEnd ==
    /\ AtMarker /\ After = <<>>
    /\ ReturnError(Next1.span, "Expected '(' after builtin macro",
                   <<MarkerEv(Next1.span, Here.tag, "error", CallSite)>>)

\* punctuation or a literal follows the marker
ExpectedGroupAtToken ==
    /\ AtMarker /\ After # <<>> /\ After[1].kind \in {"Punct", "Literal"}
    /\ ReturnError(After[1].span, "Expected '('",
                   <<MarkerEv(Next1.span, Here.tag, "error", CallSite)>>)

\* an identifier follows a marker that is not ignore
ExpectedGroupAtIdent ==
    /\ AtMarker /\ After # <<>> /\ After[1].kind = "Ident"
    /\ Here.tag # "Ignore"
    /\ ReturnError(After[1].span, "Expected '('",
                   <<MarkerEv(Next1.span, Here.tag, "error", CallSite)>>)

\* ignore is followed by an identifier
AtIgnoreIdent ==
    AtMarker /\ Here.tag = "Ignore" /\ After # <<>> /\ After[1].kind = "Ident"

Named == from_name(After[1].text, After[1].span)

IgnoreNotBuiltin ==
    /\ AtIgnoreIdent /\ Named = NoMacro
    /\ ReturnError(After[1].span, "Expected '(' or builtin macro",
                   <<MarkerEv(Next1.span, "Ignore", "error", CallSite)>>)

\* ignore followed by dollar: both are dropped
IgnoreDollar ==
    /\ AtIgnoreIdent /\ Named # NoMacro /\ Named.tag = "Dollar"
    /\ input' = Advance(2)
    /\ log' = log \o <<MarkerEv(Next1.span, "Ignore", "dropped", CallSite),
                       MarkerEv(After[1].span, "Dollar", "dropped", CallSite)>>
    /\ UNCHANGED <<src, res, pc, result, origin>>

AtIgnoreMarker == AtIgnoreIdent /\ Named # NoMacro /\ Named.tag # "Dollar"

\* the token after the named marker is a group
GroupFollows == IF Len(After) >= 2 THEN After[2].kind = "Group" ELSE FALSE

\* ignore, a marker and its group: the top frame is replaced by one that
\* walks the group's contents and then the rest of the old cursor
\* mutant of IgnoreMerge: the merged frame waits for the named marker
IgnoreMergeNamed ==
    /\ AtIgnoreMarker /\ GroupFollows
    /\ LET l == Top
           s == After[2].stream \o SubSeq(l.it, 4, Len(l.it))
       IN  input' = Append(Pop(input), Frame(s, Named, After[2].delimiter))
    /\ log' = log \o
            <<MarkerEv(Next1.span, "Ignore", "dropped", CallSite),
              MarkerEv(After[1].span, Named.tag, "dropped", After[2].span)>>
    /\ UNCHANGED <<src, res, pc, result, origin>>

IgnoreMerge ==
    /\ AtIgnoreMarker /\ GroupFollows
    /\ LET l == Top
           s == After[2].stream \o SubSeq(l.it, 4, Len(l.it))
       IN  input' = Append(Pop(input), Frame(s, l.m, l.d))
    /\ log' = log \o
            <<MarkerEv(Next1.span, "Ignore", "dropped", CallSite),
              MarkerEv(After[1].span, Named.tag, "dropped", After[2].span)>>
    /\ UNCHANGED <<src, res, pc, result, origin>>

IgnoreNoGroup ==
    /\ AtIgnoreMarker /\ ~GroupFollows
    /\ ReturnError(IF Len(After) >= 2 THEN After[2].span ELSE After[1].span,
                   "Expected '('",
                   <<MarkerEv(Next1.span, "Ignore", "error", CallSite),
                     MarkerEv(After[1].span, Named.tag, "error", CallSite)>>)

\* a marker followed by its argument group
AtCall == AtMarker /\ After # <<>> /\ After[1].kind = "Group"

\* mutant of SpliceIdentity: identity waits for its group like the others
SpliceIdentityPush ==
    /\ AtCall /\ Here.tag = "Identity"
    /\ input' = Append(Advance(2),
                       Frame(After[1].stream, Here, After[1].delimiter))
    /\ res' = Append(res, <<>>)
    /\ origin' = Append(origin, Origin(Next1.span, After[1].span))
    /\ log' = Append(log, MarkerEv(Next1.span, "Identity", "pushed",
                                    After[1].span))
    /\ UNCHANGED <<src, pc, result>>

\* mutant of SpliceIdentity: the contents of the group are walked
SpliceIdentityInline ==
    /\ AtCall /\ Here.tag = "Identity"
    /\ input' = [input EXCEPT ![Len(input)].it =
                    After[1].stream \o SubSeq(@, 3, Len(@))]
    /\ log' = Append(log, MarkerEv(Next1.span, "Identity", "spliced",
                                    After[1].span))
    /\ UNCHANGED <<src, res, pc, result, origin>>

\* identity: the contents of the group go to the output as they are
SpliceIdentity ==
    /\ AtCall /\ Here.tag = "Identity"
    /\ IF res = <<>> THEN Panic       \* expect("7")
       ELSE /\ res' = Extend(res, After[1].stream)
            /\ input' = Advance(2)
            /\ log' = Append(log, MarkerEv(Next1.span, "Identity", "spliced",
                                            After[1].span))
            /\ UNCHANGED <<src, pc, result, origin>>

\* mutant of PushToCase: the spelling keeps its underscore fence
PushToCaseFenced ==
    /\ AtCall /\ Here.tag = "ToCase"
    /\ LET s == <<StringLit(Next1.text),
                  Punct(",", "Alone", CallSite)>> \o After[1].stream
       IN  input' = Append(Advance(2), Frame(s, Here, After[1].delimiter))
    /\ res' = Append(res, <<>>)
    /\ origin' = Append(origin, Origin(Next1.span, After[1].span))
    /\ log' = Append(log, MarkerEv(Next1.span, "ToCase", "pushed",
                                    After[1].span))
    /\ UNCHANGED <<src, pc, result>>

\* to_case: the spelling of the marker becomes the first argument
PushToCase ==
    /\ AtCall /\ Here.tag = "ToCase"
    /\ LET s == <<StringLit(trim_matches(Next1.text, "_")),
                  Punct(",", "Alone", CallSite)>> \o After[1].stream
       IN  input' = Append(Advance(2), Frame(s, Here, After[1].delimiter))
    /\ res' = Append(res, <<>>)
    /\ origin' = Append(origin, Origin(Next1.span, After[1].span))
    /\ log' = Append(log, MarkerEv(Next1.span, "ToCase", "pushed",
                                    After[1].span))
    /\ UNCHANGED <<src, pc, result>>

\* mutant of PushMarker: the builtin is invoked at once, on the group's
\* contents as written
PushMarkerEager ==
    /\ AtCall /\ Here.tag \notin {"Identity", "ToCase"}
    /\ IF res = <<>> THEN Panic
       ELSE LET r == invoke(Here, After[1].stream)
            IN  IF r.panicked THEN Panic
                ELSE /\ res' = Extend(res, r.out)
                     /\ input' = Advance(2)
                     /\ log' = log \o
                            <<MarkerEv(Next1.span, Here.tag, "pushed",
                                       After[1].span),
                              InvokeEv(Origin(Next1.span, After[1].span),
                                       Here.tag, After[1].stream, r.out,
                                       <<>>)>>
                     /\ UNCHANGED <<src, pc, result, origin>>

PushMarker ==
    /\ AtCall /\ Here.tag \notin {"Identity", "ToCase"}
    /\ input' = Append(Advance(2),
                       Frame(After[1].stream, Here, After[1].delimiter))
    /\ res' = Append(res, <<>>)
    /\ origin' = Append(origin, Origin(Next1.span, After[1].span))
    /\ log' = Append(log, MarkerEv(Next1.span, Here.tag, "pushed",
                                    After[1].span))
    /\ UNCHANGED <<src, pc, result>>

\* this call is the first one: its result was not expanded yet
FirstPass == \A j \in 1..Len(log) : log[j].ev # "pass"

\* the result is the body of a place! call of the generated code (as in
\* tests/aksjd.rs): the host calls place on it.  The model follows the
\* second call when the result holds a marker.
PlaceOutput ==
    /\ pc = "done" /\ FirstPass /\ HasMarker(result)
    /\ src' = Spanned(result, CallSite)
    /\ input' = <<Frame(src', NoMacro, "None")>>
    /\ res' = << <<>> >>
    /\ pc' = "loop"
    /\ result' = <<>>
    /\ origin' = <<Origin(CallSite, CallSite)>>
    /\ log' = <<PassEv(src, result)>>

Next ==
    \/ InvokePending
    \/ CloseGroup
    \/ CloseLast
    \/ Return
    \/ EnterGroup
    \/ PassToken
    \/ PassIdent
    \/ PlaceDollar
    \/ ExpectedGroupAtEnd
    \/ ExpectedGroupAtToken
    \/ ExpectedGroupAtIdent
    \/ IgnoreNotBuiltin
    \/ IgnoreDollar
    \/ IgnoreMerge
    \/ IgnoreNoGroup
    \/ SpliceIdentity
    \/ PushToCase
    \/ PushMarker
    \/ PlaceOutput

Spec == Init /\ [][Next]_vars

\* the loop has no suspension point: an iteration that can run does run
FairSpec == Spec /\ WF_vars(Next)

-----------------------------------------------------------------------------
(* Direct calls of the builtins, outside place: at most MaxCalls calls,     *)
(* each on src or on the result of the call before                         *)

ArgAtoms ==
    { Ident("my_var", CallSite),
      Punct("+", "Joint", CallSite),
      Lit("String", "\"a\"", "a", CallSite) }

DirectInit ==
    /\ \E ts \in Forests(MaxTokens, ArgAtoms, {"Parenthesis"}) :
            src = Spanned(ts, CallSite)
    /\ input = <<>>
    /\ res = <<>>
    /\ pc = "call"
    /\ result = <<>>
    /\ origin = <<>>
    /\ log = <<>>

\* a call is made on the input or on the result of the call before
Args == IF log = <<>> THEN {src} ELSE {src, result}

Direct(tag, arg, out) ==
    /\ pc = "call" /\ Len(log) < MaxCalls
    /\ result' = out
    /\ log' = Append(log, InvokeEv(Origin(CallSite, CallSite), tag, arg, out,
                                   <<>>))
    /\ UNCHANGED <<src, input, res, pc, origin>>

DirectHead == \E a \in Args : Direct("Head", a, head(a))
DirectTail == \E a \in Args : Direct("Tail", a, tail(a))
DirectStart == \E a \in Args : Direct("Start", a, start(a))
DirectLast == \E a \in Args : Direct("Last", a, last(a))
DirectReverse == \E a \in Args : Direct("Reverse", a, reverse(a))

DirectNext ==
    \/ DirectHead
    \/ DirectTail
    \/ DirectStart
    \/ DirectLast
    \/ DirectReverse

DirectSpec == DirectInit /\ [][DirectNext]_vars

-----------------------------------------------------------------------------
(* Properties of place (checked under Spec) *)

\* C1: pass-through law.  A call on a stream that holds no marker
\* identifier at any depth never fails, and it returns the stream it was
\* given: the same tokens in the same order, every group with its delimiter
\* and contents, every punctuation with its spacing (spans apart: a rebuilt
\* group has the span of the call site).
C1_PassThrough ==
    ~HasMarker(src) =>
        /\ pc \in {"loop", "done"}
        /\ pc = "done" => Unspan(result) = Unspan(src)

\* a marker-free call has returned a stream with a brace group that holds
\* a bracket group, followed by joint punctuation
C1_Witness ==
    /\ pc = "done" /\ ~HasMarker(src) /\ Len(src) >= 2
    /\ src[1].kind = "Group" /\ src[1].delimiter = "Brace"
    /\ src[1].stream # <<>> /\ src[1].stream[1].kind = "Group"
    /\ src[1].stream[1].delimiter = "Bracket"
    /\ src[2].kind = "Punct" /\ src[2].spacing = "Joint"

-----------------------------------------------------------------------------
(* The history of a call, read against the input *)

RECURSIVE TokenAt(_, _)
\* the token of the stream that has the span `at`
TokenAt(ts, at) ==
    IF Len(at) = 1 THEN ts[at[1]]
    ELSE TokenAt(ts[at[1]].stream, Tail(at))

\* the span q lies strictly inside the group with span g
Inside(q, g) == Len(q) > Len(g) /\ SubSeq(q, 1, Len(g)) = g

RECURSIVE Markers(_)
\* the spans of the marker identifiers of the stream, at any depth
Markers(ts) ==
    UNION { IF ts[i].kind = "Group" THEN Markers(ts[i].stream)
            ELSE IF IsMarker(ts[i]) THEN {ts[i].span} ELSE {} :
            i \in 1..Len(ts) }

\* the invocations on frame pop that the call has made so far
Invokes == { j \in 1..Len(log) : log[j].ev = "invoke" /\ log[j].tag # "Dollar" }

\* the markers the walk has met so far
Met == { k \in 1..Len(log) : log[k].ev = "marker" }

\* the marker at span p was either met before step j, or it lies in a group
\* that identity spliced before step j
WalkedBefore(p, j) ==
    \E k \in Met :
        /\ k < j
        /\ \/ log[k].at = p
           \/ log[k].how = "spliced" /\ Inside(p, log[k].group)

\* the builtin of the marker met at step k was invoked before step j
InvokedBefore(k, j) ==
    \E i \in (k + 1)..(j - 1) :
        log[i].ev = "invoke" /\ log[i].at = log[k].at

\* C2: innermost-first ordering.  When the builtin of a marker that pushed
\* a frame is invoked, the cursor over its argument group is exhausted,
\* every marker of the group was met before (or lies in a group that
\* identity spliced), every marker met inside the group that pushed a frame
\* or placed a dollar had its builtin invoked before, and the input of the
\* builtin is not the raw content of a group that holds a marker.
C2_InnermostFirst ==
    \A j \in Invokes :
        LET e == log[j]
            raw == TokenAt(src, e.group).stream
        IN  /\ e.rest = <<>>
            /\ \A p \in Markers(raw) : WalkedBefore(p, j)
            /\ \A k \in Met :
                    Inside(log[k].at, e.group) =>
                        /\ k < j
                        /\ log[k].how \in {"pushed", "placed"} =>
                                InvokedBefore(k, j)
            /\ HasMarker(raw) => Unspan(e.arg) # Unspan(raw)

\* the call returned after an outer builtin was invoked on the rewritten
\* content of a group in which an inner marker had pushed a frame
C2_Witness ==
    /\ pc = "done"
    /\ \E j \in Invokes, k \in Met :
            /\ Inside(log[k].at, log[j].group)
            /\ log[k].how = "pushed"
            /\ log[j].tag = "String" /\ log[k].tag = "Head"
            /\ InvokedBefore(k, j)
            /\ log[j].arg # <<>>

RECURSIVE Diagnostics(_)
\* how many compile_error identifiers the stream holds, at any depth
Diagnostics(ts) ==
    IF ts = <<>> THEN 0
    ELSE (IF Head(ts).kind = "Group" THEN Diagnostics(Head(ts).stream)
          ELSE IF Head(ts).kind = "Ident" /\ Head(ts).text = "compile_error"
               THEN 1 ELSE 0)
         + Diagnostics(Tail(ts))

\* the stream is one diagnostic, as error_at builds it
IsDiagnostic(ts) ==
    IF Len(ts) = 3
    THEN /\ ts[1].kind = "Ident" /\ ts[1].text = "compile_error"
         /\ ts[2].kind = "Punct" /\ ts[2].ch = "!"
         /\ ts[3].kind = "Group"
    ELSE FALSE

\* the invocations on frame pop in which the builtin returned a diagnostic
Diagnosed == { j \in Invokes : IsDiagnostic(log[j].out) }

\* C3: error propagation.  A diagnostic, whether place itself built it or a
\* builtin invoked on frame pop returned it, is the entire result of the
\* call, is never part of the input of a builtin invoked later, and is the
\* only diagnostic of the result.
C3_ErrorPropagation ==
    /\ pc = "error" => IsDiagnostic(result)
    /\ \A j \in Diagnosed :
            /\ pc = "done" => result = log[j].out
            /\ \A i \in Invokes : i > j => Diagnostics(log[i].arg) = 0
    /\ pc \in {"done", "error"} => Diagnostics(result) <= 1

\* the state part of C4: no marker was met and no builtin was invoked at a
\* span inside a group that identity spliced, and the documented example
\* returns the documented literal
IdentityInert ==
    /\ \A k \in Met :
            log[k].how = "spliced" =>
                \A i \in 1..Len(log) : ~Inside(log[i].at, log[k].group)
    /\ src = Spanned(DocExample, CallSite) =>
            /\ pc \in {"loop", "done"}
            /\ pc = "done" => result = <<StringLit("123__string__4")>>

\* the step part of C4: at the identity marker followed by a group, the
\* contents of the group are appended to the current output as written, no
\* frame is pushed and no builtin is invoked
IdentityStep ==
    AtCall /\ Here.tag = "Identity" =>
        /\ res' = Extend(res, After[1].stream)
        /\ input' = Advance(2)
        /\ Len(log') = Len(log) + 1
        /\ log'[Len(log')].ev = "marker"
        /\ pc' = "loop"

\* C4: identity bypass.  When the walk is at the identity marker followed
\* by a group, the group's contents go to the current output exactly as
\* written, without the group wrapper, without a new frame and without any
\* invocation; no marker inside them is ever met, so an enclosing builtin
\* receives them as inert tokens, and
\* __string__(1 __string__(2 __identity__(3 __string__(4)))) returns the
\* string literal "123__string__4".
C4_IdentityBypass == []IdentityInert /\ [][IdentityStep]_vars

\* the documented example has returned its literal
C4_Witness ==
    /\ pc = "done"
    /\ src = Spanned(DocExample, CallSite)
    /\ result = <<StringLit("123__string__4")>>
    /\ \E k \in Met : log[k].how = "spliced" /\ log[k].group = <<2, 3, 3>>

\* the step ends the call with a diagnostic at the span
DiagnosedAt(span) ==
    /\ pc' = "error"
    /\ IsDiagnostic(result')
    /\ result'[1].span = span /\ result'[3].span = span
    /\ UNCHANGED <<input, res>>

\* C5: missing argument group.  A marker other than dollar that is the last
\* token of the cursor being walked, at top level or in a group, ends the
\* call with a diagnostic at the span of that marker (also when it is the
\* marker named after ignore), and a marker other than dollar and ignore
\* that is followed by an identifier, a punctuation or a literal ends the
\* call with a diagnostic (at the span of that token); no such step panics.
C5_MissingGroup ==
    [][ /\ AtMarker /\ After = <<>> => DiagnosedAt(Next1.span)
        /\ AtMarker /\ After # <<>> =>
              IF After[1].kind = "Group" THEN pc' # "error"
              ELSE IF Here.tag # "Ignore" THEN DiagnosedAt(After[1].span)
              ELSE IF After[1].kind # "Ident" THEN DiagnosedAt(After[1].span)
              ELSE IF Named = NoMacro THEN DiagnosedAt(After[1].span)
              ELSE IF Named.tag = "Dollar" THEN pc' = "loop"
              ELSE IF Len(After) = 1 THEN DiagnosedAt(After[1].span)
              ELSE IF After[2].kind # "Group" THEN DiagnosedAt(After[2].span)
              ELSE pc' = "loop"
      ]_vars

\* the call ended with a diagnostic at a marker that was the last token of
\* a group
C5_Witness ==
    /\ pc = "error"
    /\ log # <<>>
    /\ LET e == log[Len(log)]
       IN  /\ e.ev = "marker" /\ e.how = "error" /\ e.tag = "String"
           /\ Len(e.at) = 2
           /\ result = error_at(e.at, "Expected '(' after builtin macro")

RECURSIVE TooLarge(_)
\* some integer literal of the stream, at any depth, is above u128::MAX
TooLarge(ts) ==
    \E i \in 1..Len(ts) :
        IF ts[i].kind = "Group" THEN TooLarge(ts[i].stream)
        ELSE IF ts[i].kind = "Literal"
             THEN ts[i].lit = "Integer" /\ ~FitsU128(ts[i].val)
             ELSE FALSE

\* the first argument is a string that is none of the six case specifiers
UnknownSpecifier(ts) ==
    IF ts = <<>> THEN FALSE
    ELSE LET dst == get_str_lit(ts[1])
         IN  IF dst.some THEN ~get_case(dst.val, "x").some ELSE FALSE

\* C6: value errors are diagnostics, never panics.  When the builtin of a
\* frame is about to be invoked and its input is a to_case input with an
\* unknown case specifier, or a string or identifier input that holds an
\* integer literal above u128::MAX, the builtin returns, and what it returns
\* is a diagnostic.
C6_ValueErrors ==
    AtEnd /\ Top.m # NoMacro /\ Len(res) >= 2 =>
        LET t == res[Len(res)]
            r == invoke(Top.m, t)
        IN  \/ Top.m.tag = "ToCase" /\ UnknownSpecifier(t)
            \/ Top.m.tag \in {"String", "Identifier"} /\ TooLarge(t)
            => ~r.panicked /\ IsDiagnostic(r.out)

\* how many times a builtin was invoked for the marker at span p
Invocations(p) ==
    Cardinality({ j \in 1..Len(log) : log[j].ev = "invoke" /\ log[j].at = p })

\* the markers of the input that the walk reaches: all but those inside a
\* group that identity spliced
Reached ==
    { p \in Markers(src) :
        \A k \in Met : log[k].how = "spliced" => ~Inside(p, log[k].group) }

\* C7 as the specification states it: after a call that returned, every
\* marker the walk reached had its builtin invoked exactly once.
C7_EachMarkerOnce ==
    pc = "done" => \A p \in Reached : Invocations(p) = 1

\* the state part of C7: no marker is met twice and no builtin is invoked
\* but for a marker met before; after a call that returned, every marker
\* outside the groups identity spliced was met, those that pushed a frame or
\* placed a dollar were invoked once, and identity, ignore before a marker
\* identifier and that identifier were not invoked
InvokedOnce ==
    /\ \A k \in Met :
            /\ \A i \in Met : log[i].at = log[k].at => i = k
            /\ Invocations(log[k].at) <= 1
    /\ \A j \in 1..Len(log) :
            log[j].ev = "invoke" =>
                \E k \in Met : /\ k < j /\ log[k].at = log[j].at
                                /\ log[k].how \in {"pushed", "placed"}
    /\ pc = "done" =>
            /\ \A p \in Reached : \E k \in Met : log[k].at = p
            /\ \A k \in Met :
                    Invocations(log[k].at) =
                        (IF log[k].how \in {"pushed", "placed"} THEN 1 ELSE 0)

\* the step part of C7: what a builtin returns goes to the accumulator of
\* the parent frame and to no cursor
NoRescan ==
    AtEnd /\ Top.m # NoMacro /\ pc' = "loop" =>
        /\ input' = Pop(input)
        /\ res' = Extend(Pop(res), invoke(Top.m, res[Len(res)]).out)

\* C7 (amended): no fixpoint expansion.  In a call that returns, every
\* marker that pushed a frame and every dollar placed has its builtin
\* invoked exactly once; identity is spliced without an invocation; ignore
\* followed by a marker identifier drops both without invoking either; and
\* the tokens a builtin returns are appended to the parent output and never
\* walked.
C7_NoFixpoint == []InvokedOnce /\ [][NoRescan]_vars

\* a call returned in which one marker was invoked once and ignore and the
\* marker named after it were dropped without an invocation
C7_Witness ==
    /\ pc = "done"
    /\ \E k \in Met :
            /\ log[k].how = "pushed" /\ log[k].tag = "String"
            /\ Invocations(log[k].at) = 1
    /\ \E k \in Met :
            /\ log[k].how = "dropped" /\ log[k].tag = "Head"
            /\ Invocations(log[k].at) = 0

-----------------------------------------------------------------------------
(* Liveness of place (checked under FairSpec) *)

\* C8: termination.  Every call, whatever the nesting and the mix of
\* markers, the ignore merge included, comes to the state in which the
\* frame stack is empty and the result is returned, or returns a
\* diagnostic.
C8_Termination == <>(pc = "done" \/ pc = "error")

-----------------------------------------------------------------------------
(* Properties of the builtins called directly (checked under DirectSpec) *)

\* the calls of the builtin made so far
Calls(tag) == { j \in 1..Len(log) : log[j].tag = tag }

\* C9: head and tail split a sequence.  For every call of head, the result
\* is empty if the input is empty and otherwise the first token of the input
\* alone, a group counting as one token, and head followed by what tail
\* returns on the same input is the input; for every call of tail, the
\* result is empty if the input is empty and otherwise has one token less
\* than the input, and what head returns on the same input followed by the
\* result is the input.
C9_HeadTail ==
    /\ \A j \in Calls("Head") :
            LET s == log[j].arg
                h == log[j].out
            IN  /\ Len(h) = (IF s = <<>> THEN 0 ELSE 1)
                /\ s # <<>> => h[1] = s[1]
                /\ h \o tail(s) = s
    /\ \A j \in Calls("Tail") :
            LET s == log[j].arg
                t == log[j].out
            IN  /\ Len(t) = (IF s = <<>> THEN 0 ELSE Len(s) - 1)
                /\ head(s) \o t = s

\* head and tail were both called on a sequence that starts with a
\* non-empty group and goes on after it
C9_Witness ==
    /\ Len(src) >= 2 /\ src[1].kind = "Group" /\ src[1].stream # <<>>
    /\ \E j \in Calls("Head"), k \in Calls("Tail") :
            /\ log[j].arg = src /\ log[j].out = <<src[1]>>
            /\ log[k].arg = src /\ log[k].out = SubSeq(src, 2, Len(src))

\* C10: reverse is an involution on the top-level tokens.  Every call of
\* reverse returns as many tokens as it was given, the token at place i of
\* the result being the token at place i from the end of the input, whole
\* and unchanged (the contents of a group are not reordered); and a call
\* of reverse on the result of a call of reverse returns the input of the
\* first.
C10_ReverseInvolution ==
    /\ \A j \in Calls("Reverse") :
            LET s == log[j].arg
                r == log[j].out
            IN  /\ Len(r) = Len(s)
                /\ \A i \in 1..Len(s) : r[i] = s[Len(s) + 1 - i]
    /\ \A j \in Calls("Reverse"), k \in Calls("Reverse") :
            j < k /\ log[k].arg = log[j].out => log[k].out = log[j].arg

\* reverse was called on a sequence that starts with a non-empty group
\* and goes on with another token, and then on the result
C10_Witness ==
    /\ Len(src) >= 2 /\ src[1].kind = "Group" /\ src[1].stream # <<>>
    /\ src[1] # src[Len(src)]
    /\ Len(log) >= 2
    /\ log[1].tag = "Reverse" /\ log[1].arg = src
    /\ log[1].out # src
    /\ log[2].tag = "Reverse" /\ log[2].arg = log[1].out
    /\ log[2].out = src

-----------------------------------------------------------------------------
(* Calls of the builtins that take arguments, outside place: one call on    *)
(* the argument list src, made for a marker at span CallPos                 *)

CallPos == <<0>>

RECURSIVE Texts(_, _)
\* every text of at most n characters of the alphabet
Texts(n, alphabet) ==
    IF n = 0 THEN {""}
    ELSE LET shorter == Texts(n - 1, alphabet)
         IN  shorter \cup { t \o c : t \in shorter, c \in alphabet }

\* replace_newline!("hello\n    every body\n", ", ")
DocNewline == <<StringLit("hello\n    every body\n"), Comma, StringLit(", ")>>

\* a text with newlines and spaces, and a replacement
NewlineArgs ==
    { <<StringLit(t), Comma, StringLit(r)>> :
        t \in Texts(MaxText, {"a", " ", "\n"}), r \in {", ", "\n"} }
    \cup {DocNewline}

\* the tokens of the streams given to string and identifier: an
\* identifier, a punctuation, and an integer (hexadecimal), a character
\* and a string literal
ConcatAtoms ==
    { Ident("my", CallSite),
      Punct("+", "Alone", CallSite),
      Lit("Integer", "0x2F", "47", CallSite),
      Lit("Char", "' '", " ", CallSite),
      StringLit("a") }

\* "hello" + , ", " {(agent)} ' ' 0x2F
DocConcat ==
    <<StringLit("hello"), Punct("+", "Alone", CallSite), Comma,
      StringLit(", "),
      Group("Brace",
            <<Group("Parenthesis", <<Ident("agent", CallSite)>>, CallSite)>>,
            CallSite),
      Lit("Char", "' '", " ", CallSite),
      Lit("Integer", "0x2F", "47", CallSite)>>

ConcatArgs ==
    Forests(MaxTokens, ConcatAtoms, {"Parenthesis", "Brace", "None"})
    \cup {DocConcat}

\* the argument lists of up to MaxArgs tokens over a string literal (a
\* case specifier), a comma and an identifier
ArityArgs ==
    Forests(MaxArgs, {StringLit("ToCase"), Comma, Ident("my_var", CallSite)},
            {})

ArgInit ==
    /\ \E ts \in NewlineArgs \cup ConcatArgs \cup ArityArgs \cup UnwrapArgs :
            src = Spanned(ts, CallSite)
    /\ input = <<>>
    /\ res = <<>>
    /\ pc = "arg"
    /\ result = <<>>
    /\ origin = <<>>
    /\ log = <<>>

Call(tag, out) ==
    /\ pc = "arg"
    /\ pc' = "ret"
    /\ result' = out
    /\ log' = <<InvokeEv(Origin(CallPos, CallSite), tag, src, out, <<>>)>>
    /\ UNCHANGED <<src, input, res, origin>>

\* a call of a builtin that can panic
CallOrPanic(tag, r) ==
    IF r.panicked
    THEN /\ pc = "arg"
         /\ pc' = "panic"
         /\ UNCHANGED <<src, input, res, result, origin, log>>
    ELSE Call(tag, r.out)

CallReplaceNewline ==
    Call("ReplaceNewline", replace_newline(src, CallPos))

CallStrReplace == Call("StrReplace", str_replace(src, CallPos))

CallToCase == CallOrPanic("ToCase", to_case(src, CallPos))

CallString == CallOrPanic("String", string(src))

CallIdentifier == CallOrPanic("Identifier", identifier(src))

ArgNext ==
    \/ CallReplaceNewline
    \/ CallStrReplace
    \/ CallToCase
    \/ CallString
    \/ CallIdentifier

ArgSpec == ArgInit /\ [][ArgNext]_vars

-----------------------------------------------------------------------------
(* Properties of the builtins that take arguments (checked under ArgSpec) *)

\* character k of the text lies in a run made of a newline and the
\* whitespace after it
InRun(text, k) ==
    \E j \in 1..k :
        /\ Char(text, j) = "\n"
        /\ \A m \in j..k : is_whitespace(Char(text, m))

RECURSIVE RunsReplaced(_, _, _)
\* the text from character k on, with every such run replaced by r
RunsReplaced(text, r, k) ==
    IF k > Len(text) THEN ""
    ELSE (IF ~InRun(text, k) THEN Char(text, k)
          ELSE IF k = 1 THEN r
          ELSE IF InRun(text, k - 1) THEN ""
          ELSE r)
         \o RunsReplaced(text, r, k + 1)

\* the call was made on two string literals with a comma between
TwoStrings(e) ==
    IF Len(e.arg) = 3
    THEN /\ get_str_lit(e.arg[1]).some /\ is_comma(e.arg[2])
         /\ get_str_lit(e.arg[3]).some
    ELSE FALSE

\* C11: replace_newline on a text and a replacement returns one string
\* literal: the text in which every maximal run made of a newline and the
\* whitespace that follows it (further newlines included) is replaced by
\* one copy of the replacement, every other character kept in its order,
\* whitespace before a newline included; the documented call returns
\* "hello, every body, ".
C11_ReplaceNewline ==
    \A j \in Calls("ReplaceNewline") :
        TwoStrings(log[j]) =>
            LET text == get_str_lit(log[j].arg[1]).val
                r == get_str_lit(log[j].arg[3]).val
            IN  /\ log[j].out = <<StringLit(RunsReplaced(text, r, 1))>>
                /\ Unspan(log[j].arg) = DocNewline =>
                        log[j].out = <<StringLit("hello, every body, ")>>

\* replace_newline was called on a text in which a space comes before a
\* newline and another newline comes after it
C11_Witness ==
    /\ pc = "ret"
    /\ log[1].tag = "ReplaceNewline"
    /\ TwoStrings(log[1])
    /\ get_str_lit(src[1]).val = " \n\na"
    /\ get_str_lit(src[3]).val = ", "
    /\ result = <<StringLit(" , a")>>

\* the text of the string literal that string returns
TextOf(ts) == string(ts).out[1].val

\* C12: string returns one string literal.  Its text is empty for the
\* empty stream; for one token it is the spelling of an identifier, the
\* decoded value of a literal, nothing for a punctuation and the text of
\* the contents for a group of any delimiter; and for a stream cut in two
\* at any place it is the text of the first part followed by the text of
\* the second (depth first, left to right).  identifier builds the same
\* text and returns it as one identifier.
C12_StringConcat ==
    /\ \A j \in Calls("String") :
            LET a == log[j].arg
                out == log[j].out
            IN  /\ Len(out) = 1
                /\ out[1].kind = "Literal" /\ out[1].lit = "String"
                /\ out = <<StringLit(out[1].val)>>
                /\ a = <<>> => out[1].val = ""
                /\ Len(a) = 1 =>
                        out[1].val =
                            CASE a[1].kind = "Ident" -> a[1].text
                              [] a[1].kind = "Punct" -> ""
                              [] a[1].kind = "Literal" -> a[1].val
                              [] a[1].kind = "Group" -> TextOf(a[1].stream)
                /\ \A k \in 0..Len(a) :
                        out[1].val = TextOf(SubSeq(a, 1, k))
                                        \o TextOf(SubSeq(a, k + 1, Len(a)))
                /\ Unspan(a) = DocConcat => out[1].val = "hello, agent 47"
    /\ \A j \in Calls("Identifier") :
            /\ Len(log[j].out) = 1
            /\ log[j].out[1].kind = "Ident"
            /\ log[j].out[1].text = TextOf(log[j].arg)

\* string was called on a stream that starts with a group holding the
\* hexadecimal integer and goes on with an identifier
C12_Witness ==
    /\ pc = "ret"
    /\ log[1].tag = "String"
    /\ Len(src) = 2
    /\ src[1].kind = "Group" /\ src[1].delimiter = "Brace"
    /\ Len(src[1].stream) = 1 /\ src[1].stream[1].kind = "Literal"
    /\ src[1].stream[1].repr = "0x2F"
    /\ src[2].kind = "Ident"
    /\ result = <<StringLit("47my")>>

\* the number of arguments of a builtin that takes a comma separated list
Arity(tag) == IF tag = "StrReplace" THEN 3 ELSE 2

\* the calls of the builtins that take a comma separated list
ListCalls ==
    Calls("ReplaceNewline") \cup Calls("StrReplace") \cup Calls("ToCase")

\* the first k arguments of a are each followed by a comma
Separated(a, k) ==
    /\ Len(a) >= 2 * k
    /\ \A i \in 1..k : is_comma(a[2 * i])

\* a is exactly n single tokens that are no commas, separated by single
\* commas, with at most one trailing comma
WellFormed(a, n) ==
    /\ Len(a) \in {2 * n - 1, 2 * n}
    /\ \A i \in 1..Len(a) : is_comma(a[i]) <=> i % 2 = 0

\* C13: arity checking of replace_newline (2 arguments), str_replace (3)
\* and to_case (2).  A result that is no diagnostic is returned only for
\* an input of exactly N single-token arguments separated by single commas
\* with at most one trailing comma; a token that is no comma where the
\* comma after one of the first N-1 arguments is required gives "Expected
\* comma." at that token; an input that ends there gives "Expected more
\* arguments" at the call position; a token after the trailing comma, and
\* a token that is no comma right after the last argument, give a
\* diagnostic.
C13_Arity ==
    \A j \in ListCalls :
        LET a == log[j].arg
            out == log[j].out
            n == Arity(log[j].tag)
        IN  /\ ~IsDiagnostic(out) => WellFormed(a, n)
            /\ \A k \in 1..(n - 1) :
                    /\ Separated(a, k - 1) /\ Len(a) >= 2 * k
                            /\ ~is_comma(a[2 * k])
                        => out = error_at(a[2 * k].span, "Expected comma.")
                    /\ Separated(a, k - 1) /\ Len(a) = 2 * k - 1
                        => out = error_at(CallPos, "Expected more arguments")
            /\ Separated(a, n) /\ Len(a) > 2 * n => IsDiagnostic(out)
            /\ Separated(a, n - 1) /\ Len(a) >= 2 * n /\ ~is_comma(a[2 * n])
                    => IsDiagnostic(out)

\* str_replace was called on three arguments with the second comma
\* replaced by an identifier
C13_Witness ==
    /\ pc = "ret"
    /\ log[1].tag = "StrReplace"
    /\ Len(src) = 5
    /\ is_comma(src[2])
    /\ src[4].kind = "Ident"
    /\ result = error_at(<<4>>, "Expected comma.")

\* ts is __identity__(M)(args) with M a marker spelling other than dollar
IsDeferred(ts) ==
    /\ Len(ts) = 3
    /\ IsMarker(ts[1]) /\ from_name(ts[1].text, ts[1].span).tag = "Identity"
    /\ ts[2].kind = "Group" /\ Len(ts[2].stream) = 1
    /\ IsMarker(ts[2].stream[1])
    /\ from_name(ts[2].stream[1].text, CallSite).tag # "Dollar"
    /\ ts[3].kind = "Group"

RECURSIVE DollarOnly(_)
\* the only markers of the stream, at any depth, are dollar markers
DollarOnly(ts) ==
    \A i \in 1..Len(ts) :
        IF ts[i].kind = "Group" THEN DollarOnly(ts[i].stream)
        ELSE IsMarker(ts[i]) => from_name(ts[i].text, CallSite).tag = "Dollar"

RECURSIVE Resolved(_)
\* the stream with every dollar marker replaced by the punctuation
Resolved(ts) ==
    [i \in 1..Len(ts) |->
        IF ts[i].kind = "Group"
        THEN Group(ts[i].delimiter, Resolved(ts[i].stream), CallSite)
        ELSE IF IsMarker(ts[i]) THEN Dollar ELSE ts[i]]

\* the first call was made on __identity__(M)(args)
DeferredFirst ==
    FirstPass /\ IsDeferred(src) /\ DollarOnly(src[3].stream)

\* the second call is made on the result of a call on __identity__(M)(args)
DeferredSecond ==
    /\ ~FirstPass
    /\ IsDeferred(log[1].arg) /\ DollarOnly(log[1].arg[3].stream)

\* C14: deferred invocation through identity.  The call on
\* __identity__(M)(args), M a marker spelling other than dollar, never fails
\* and invokes no builtin; it returns the identifier M as written, followed
\* by a group with the delimiter of (args) that holds args with its dollar
\* markers resolved.  The call on that result does not fail with a
\* diagnostic of place: it invokes the builtin of M, once, on the rewritten
\* args (behind the specifier and a comma for a case conversion marker),
\* and returns what the builtin returned; for M the identity marker, which
\* place resolves without a call of the builtin, it returns the rewritten
\* args as they are.
C14_DeferredInvocation ==
    /\ DeferredFirst =>
            /\ pc \in {"loop", "done"}
            /\ Invokes = {}
            /\ pc = "done" =>
                    /\ Len(result) = 2
                    /\ result[1] = src[2].stream[1]
                    /\ Unspan(<<result[2]>>) =
                            Unspan(<<Group(src[3].delimiter,
                                           Resolved(src[3].stream), CallSite)>>)
    /\ DeferredSecond =>
            LET M == log[1].arg[2].stream[1].text
                m == from_name(M, <<1>>)
                X == Unspan(log[1].out[2].stream)
                given == IF m.tag = "ToCase"
                         THEN <<StringLit(trim_matches(M, "_")), Comma>> \o X
                         ELSE X
            IN  /\ pc # "error"
                /\ pc = "done" =>
                        IF m.tag = "Identity"
                        THEN Invokes = {} /\ Unspan(result) = X
                        ELSE \E j \in Invokes :
                                /\ Invokes = {j}
                                /\ log[j].tag = m.tag /\ log[j].at = <<1>>
                                /\ Unspan(log[j].arg) = given
                                /\ result = log[j].out

\* the call on the result of __identity__(__string__){my_var __s__} has
\* returned the string literal
C14_Witness ==
    /\ DeferredSecond
    /\ pc = "done"
    /\ log[1].arg[2].stream[1].text = "__string__"
    /\ log[1].arg[3].delimiter = "Brace"
    /\ Unspan(log[1].out) =
            <<Ident("__string__", CallSite),
              Group("Brace", <<Ident("my_var", CallSite), Dollar>>, CallSite)>>
    /\ result = <<StringLit("my_var")>>

\* the spelling of a marker without its underscore fence
Unfenced(name) == SubSeq(name, 3, Len(name) - 2)

\* ts is __X__(ident) with X one of the six specifiers
IsCaseCall(ts) ==
    /\ Len(ts) = 2
    /\ ts[1].kind = "Ident" /\ Len(ts[1].text) > 4
    /\ starts_with(ts[1].text, "__") /\ ends_with(ts[1].text, "__")
    /\ Unfenced(ts[1].text) \in CaseSpecs
    /\ ts[2].kind = "Group" /\ Len(ts[2].stream) = 1
    /\ ts[2].stream[1].kind = "Ident" /\ ~IsMarker(ts[2].stream[1])

\* what the six styles make of my_var
StyleOfMyVar ==
    [X \in CaseSpecs |->
        CASE X = "TOCASE" -> "MYVAR"
          [] X = "tocase" -> "myvar"
          [] X = "toCase" -> "myVar"
          [] X = "ToCase" -> "MyVar"
          [] X = "to_case" -> "my_var"
          [] X = "TO_CASE" -> "MY_VAR"]

\* the state part of C15: the call on __X__(ident) does not fail and returns
\* what to_case returns for "X", ident
CaseCallResult ==
    IsCaseCall(src) /\ FirstPass =>
        LET X == Unfenced(src[1].text)
            i == Unspan(src[2].stream)
            direct == to_case(<<StringLit(X), Comma>> \o i, CallSite)
        IN  /\ pc \in {"loop", "done"}
            /\ ~direct.panicked
            /\ pc = "done" =>
                    /\ result = direct.out
                    /\ i[1].text = "my_var" =>
                            result = <<Ident(StyleOfMyVar[X], CallSite)>>
            /\ \A Y \in CaseSpecs \ {X} :
                    to_case(<<StringLit(Y), Comma>> \o i, CallSite) # direct

\* the step part of C15: at a case marker followed by a group, a frame is
\* pushed whose cursor is the string literal of the unfenced spelling, a
\* comma and the contents of the group
CaseCallStep ==
    AtCall /\ Here.tag = "ToCase" /\ Unfenced(Next1.text) \in CaseSpecs =>
        /\ input' = Append(Advance(2),
                Frame(<<StringLit(Unfenced(Next1.text)), Comma>>
                        \o After[1].stream,
                      Macro("ToCase", Next1.span), After[1].delimiter))
        /\ res' = Append(res, <<>>)

\* C15: case-conversion markers.  For each of the six specifiers X, the
\* call of place on __X__(ident) returns what the direct call
\* to_case("X", ident) returns; when the walk is at the marker, it pushes a
\* frame whose cursor holds a string literal with X (the spelling of the
\* marker without its underscore fence) and a comma ahead of the contents
\* of the group; and the six specifiers give six different results.
C15_CaseMarkers == []CaseCallResult /\ [][CaseCallStep]_vars

\* the call on __TO_CASE__(myVar) has returned MY_VAR
C15_Witness ==
    /\ pc = "done"
    /\ Unspan(src) = CallOf("__TO_CASE__", <<Ident("myVar", CallSite)>>)
    /\ Cardinality(Invokes) = 1
    /\ result = <<Ident("MY_VAR", CallSite)>>

\* the builtin of each canonical spelling and of its short alias
Aliases ==
    [n \in {"__identity__", "__id__", "__dollar__", "__s__", "__string__",
            "__str__", "__identifier__", "__ident__", "__stringify__",
            "__strfy__", "__replace_newline__", "__repnl__",
            "__str_replace__", "__repstr__"} |->
        CASE n \in {"__identity__", "__id__"} -> "Identity"
          [] n \in {"__dollar__", "__s__"} -> "Dollar"
          [] n \in {"__string__", "__str__"} -> "String"
          [] n \in {"__identifier__", "__ident__"} -> "Identifier"
          [] n \in {"__stringify__", "__strfy__"} -> "Stringify"
          [] n \in {"__replace_newline__", "__repnl__"} -> "ReplaceNewline"
          [] n \in {"__str_replace__", "__repstr__"} -> "StrReplace"]

\* the spellings that are matched exactly
ExactNames ==
    DOMAIN Aliases
    \cup {"__ignore__", "__head__", "__tail__", "__start__", "__last__",
          "__reverse__"}

\* the spelling is __tocase__ or __to_case__ in some letter case
IsCaseFamily(n) == to_lowercase(n) \in {"__tocase__", "__to_case__"}

\* the step treats the identifier it is at as a plain identifier
PassedThrough ==
    /\ res' = Extend(res, <<Next1>>)
    /\ input' = Advance(1)
    /\ UNCHANGED <<src, pc, result, origin, log>>

\* the step treats the identifier it is at as the marker of the builtin
TreatedAs(tag) ==
    /\ Len(log') > Len(log)
    /\ log'[Len(log) + 1] \in
            { MarkerEv(Next1.span, tag, how, g) :
                how \in {"placed", "pushed", "spliced", "dropped", "error"},
                g \in {CallSite} \cup
                      (IF Len(Top.it) > 1 THEN {Top.it[2].span} ELSE {}) }

\* C16: marker registry.  At an identifier, the walk treats a canonical
\* spelling and its short alias as the marker of the same builtin; it
\* treats every spelling that is __tocase__ or __to_case__ after
\* lower-casing as the marker of to_case; and it passes every other
\* spelling that is not exactly one of the registry, such as __STRING__,
\* to the output as a plain identifier.
C16_Registry ==
    [][HasNext /\ Next1.kind = "Ident" =>
        /\ Next1.text \in DOMAIN Aliases => TreatedAs(Aliases[Next1.text])
        /\ IsCaseFamily(Next1.text) => TreatedAs("ToCase")
        /\ Next1.text \notin ExactNames /\ ~IsCaseFamily(Next1.text)
                => PassedThrough]_vars

\* __Id__(my_var) was returned as it is
C16_Witness ==
    /\ pc = "done"
    /\ Len(src) = 2 /\ src[1].kind = "Ident" /\ src[1].text = "__Id__"
    /\ src[2].kind = "Group"
    /\ log = <<>>
    /\ Unspan(result) = Unspan(src)

\* the walk is at a dollar marker
AtDollar == HasNext /\ IsMarker(Next1) /\ Here.tag = "Dollar"

\* the state part of C17: at a dollar marker, dollar returns the single
\* stand-alone $ for the empty input and a diagnostic at the first token
\* for the tokens that follow the marker; every call of dollar that place
\* has made was made on the empty input and returned the $; and the call
\* on a dollar marker and a marker-free group returns the $ and the group
DollarDirect ==
    /\ AtDollar =>
            /\ dollar(<<>>) = <<Punct("$", "Alone", CallSite)>>
            /\ After # <<>> =>
                    /\ IsDiagnostic(dollar(After))
                    /\ dollar(After)[1].span = After[1].span
    /\ \A j \in Calls("Dollar") :
            log[j].ev = "invoke" =>
                /\ log[j].arg = <<>>
                /\ log[j].out = <<Punct("$", "Alone", CallSite)>>
    /\ /\ pc = "done" /\ FirstPass /\ Len(src) = 2
       /\ IsMarker(src[1]) /\ from_name(src[1].text, CallSite).tag = "Dollar"
       /\ src[2].kind = "Group" /\ ~HasMarker(src[2].stream)
       => Unspan(result) =
            <<Punct("$", "Alone", CallSite)>> \o Unspan(<<src[2]>>)

\* the step part of C17: the step at a dollar marker appends one $ to the
\* current accumulator and moves the cursor of the top frame past the
\* marker; nothing else changes
DollarStep ==
    AtDollar =>
        /\ res' = [res EXCEPT ![Len(res)] =
                        Append(@, Punct("$", "Alone", CallSite))]
        /\ input' = [input EXCEPT ![Len(input)].it = Tail(@)]
        /\ UNCHANGED <<src, pc, result, origin>>

\* C17: dollar marker.  When the walk is at __dollar__ or __s__, it appends
\* exactly one stand-alone $ punctuation to the current output, consumes no
\* token after the marker, pushes no frame and leaves the other frames and
\* accumulators unchanged, so a group that follows is walked as an ordinary
\* group; the builtin dollar returns the single $ for the empty input and a
\* diagnostic for any other input.
C17_DollarMarker == []DollarDirect /\ [][DollarStep]_vars

\* the call on __s__ (my_var) has returned $ (my_var)
C17_Witness ==
    /\ pc = "done"
    /\ Len(src) = 2 /\ src[1].kind = "Ident" /\ src[1].text = "__s__"
    /\ src[2].kind = "Group" /\ src[2].delimiter = "Parenthesis"
    /\ Unspan(result) =
            <<Punct("$", "Alone", CallSite),
              Group("Parenthesis", <<Ident("my_var", CallSite)>>, CallSite)>>

\* the positions of the arguments that have to be strings
StringArgs(tag) ==
    CASE tag = "ReplaceNewline" -> {1, 3}
      [] tag = "StrReplace" -> {1, 3, 5}
      [] tag = "ToCase" -> {1}

RECURSIVE Accepted(_)
\* a string literal, or a group of exactly one token that is accepted
Accepted(t) ==
    IF t.kind = "Group"
    THEN IF Len(t.stream) = 1 THEN Accepted(t.stream[1]) ELSE FALSE
    ELSE IF t.kind = "Literal" THEN t.lit = "String" ELSE FALSE

RECURSIVE Wrapped(_)
\* the literal inside an accepted token
Wrapped(t) == IF t.kind = "Group" THEN Wrapped(t.stream[1]) ELSE t

\* the list with the accepted string arguments replaced by their literals
Unwrapped(a, P) ==
    [i \in 1..Len(a) |-> IF i \in P THEN Wrapped(a[i]) ELSE a[i]]

\* what the builtin returns for the list
ListCall(tag, in, pos) ==
    CASE tag = "ReplaceNewline" -> replace_newline(in, pos)
      [] tag = "StrReplace" -> str_replace(in, pos)
      [] tag = "ToCase" -> to_case(in, pos).out

\* C18: string-argument unwrapping.  In a call of replace_newline,
\* str_replace or to_case on a list of the right arity, a string argument
\* (for to_case the specifier) is accepted when it is a string literal or a
\* group, of any delimiter, of exactly one accepted token, to any depth.
\* The first argument that is not accepted (an empty group, a group of two
\* or more tokens, a token that is no string) gives "Expected string
\* literal" at that argument; when all are accepted the call returns what
\* it returns with the literals in their place, which is no diagnostic for
\* replace_newline and str_replace.
C18_Unwrapping ==
    \A j \in 1..Len(log) :
        (/\ log[j].ev = "invoke"
         /\ log[j].tag \in {"ReplaceNewline", "StrReplace", "ToCase"}) =>
            LET a == log[j].arg
                tag == log[j].tag
                n == Arity(tag)
                P == StringArgs(tag)
                bad == { p \in P : ~Accepted(a[p]) }
            IN  (/\ Len(a) \in {2 * n - 1, 2 * n}
                 /\ \A i \in 1..Len(a) : i % 2 = 0 => is_comma(a[i])) =>
                    IF bad # {}
                    THEN log[j].out =
                            error_at(a[CHOOSE p \in bad :
                                            \A q \in bad : p <= q].span,
                                     "Expected string literal")
                    ELSE /\ log[j].out =
                                ListCall(tag, Unwrapped(a, P), log[j].at)
                         /\ tag # "ToCase" => ~IsDiagnostic(log[j].out)

\* replace_newline was called on a literal inside two groups and a literal
\* inside a none-delimited group, and returned a string literal
C18_Witness ==
    /\ pc = "ret"
    /\ log[1].tag = "ReplaceNewline"
    /\ Len(src) = 3
    /\ src[1].kind = "Group" /\ src[1].delimiter = "Parenthesis"
    /\ Len(src[1].stream) = 1
    /\ src[1].stream[1].kind = "Group"
    /\ src[3].kind = "Group" /\ src[3].delimiter = "None"
    /\ result = <<StringLit("ToCase")>>

\* the state part of C19: while the loop runs there are as many
\* accumulators as frames and the bottom frame has no pending marker, so
\* the accumulators that the expect calls ask for exist: the top one at
\* every token ("5", "6", "7"), the top one and its parent when a frame
\* with a pending marker or the frame of a group ends ("1" to "4"), and
\* exactly one when no frame is left ("8")
StackInvariant ==
    /\ Running =>
            /\ Len(input) = Len(res)
            /\ input[1].m = NoMacro
            /\ res # <<>>
            /\ AtEnd /\ (Top.m # NoMacro \/ Len(res) # 1) => Len(res) >= 2
    /\ pc = "loop" /\ input = <<>> => Len(res) = 1

\* the step part of C19: the end of the last frame leaves its accumulator
\* as it is, and the return hands out that accumulator itself
FlatReturn ==
    /\ AtEnd /\ Len(input) = 1 => input' = <<>> /\ res' = res
    /\ pc = "loop" /\ input = <<>> =>
            pc' = "done" /\ result' = res[1] /\ res' = <<>>

\* C19: stack invariant of place.  At the start of every iteration of the
\* loop the number of frames equals the number of accumulators and the
\* bottom frame has no pending marker, so none of the expect calls "1" to
\* "8" can fail; when the loop ends exactly one accumulator is left, and it
\* is returned as it is, not wrapped in a group.
C19_StackInvariant == []StackInvariant /\ [][FlatReturn]_vars

\* the walk is three frames deep, in the argument group of a marker
C19_Witness ==
    /\ Running
    /\ Len(input) = 3 /\ Len(res) = 3
    /\ Top.m # NoMacro
    /\ input[2].m # NoMacro
    /\ HasNext

\* ts starts with __ignore__, a marker spelling other than dollar, and a
\* group
IsIgnoreCall(ts) ==
    /\ Len(ts) >= 3
    /\ ts[1].kind = "Ident" /\ ts[1].text = "__ignore__"
    /\ IsMarker(ts[2]) /\ from_name(ts[2].text, CallSite).tag # "Dollar"
    /\ ts[3].kind = "Group"

\* the state part of C20: no builtin is invoked for a marker that was
\* dropped, and the call on __ignore__ M (args), args with no marker but
\* dollar, invokes nothing and returns args with the dollar markers
\* resolved, without the group around them
IgnoreInline ==
    /\ \A k \in Met :
            log[k].how = "dropped" =>
                \A j \in 1..Len(log) :
                    log[j].ev = "invoke" => log[j].at # log[k].at
    /\ /\ FirstPass /\ IsIgnoreCall(src) /\ Len(src) = 3
       /\ DollarOnly(src[3].stream)
       => /\ pc \in {"loop", "done"}
          /\ Invokes = {}
          /\ pc = "done" => Unspan(result) = Unspan(Resolved(src[3].stream))

\* the step part of C20: at __ignore__, a marker and a group, the top frame
\* is replaced by one with the contents of the group followed by the rest
\* of the old cursor, the same pending marker and the same delimiter; the
\* other frames, the accumulators and the position stay, and no builtin is
\* invoked
IgnoreMergeStep ==
    HasNext /\ IsIgnoreCall(Top.it) =>
        /\ input' = [input EXCEPT ![Len(input)] =
                        Frame(Top.it[3].stream \o SubSeq(Top.it, 4, Len(Top.it)),
                              Top.m, Top.d)]
        /\ UNCHANGED <<src, res, pc, result, origin>>
        /\ \A j \in (Len(log) + 1)..Len(log') : log'[j].ev = "marker"

\* C20: ignore merge.  When the walk is at __ignore__ followed by an
\* identifier that is a marker spelling other than dollar and then a group
\* g, the top frame is replaced by one whose cursor is the contents of g
\* followed by the remaining tokens of the old top frame, with the same
\* pending marker and the same delimiter; the number of frames and the
\* accumulators are unchanged, neither the builtin of ignore nor the one of
\* the named marker is invoked, and the contents of g are then walked as
\* part of the enclosing frame.
C20_IgnoreMerge == []IgnoreInline /\ [][IgnoreMergeStep]_vars

\* the call on __string__[__ignore__ __head__ (my_var __s__) my_var] has
\* returned the string of my_var $ my_var
C20_Witness ==
    /\ pc = "done"
    /\ Unspan(src) =
            <<Ident("__string__", CallSite),
              Group("Bracket",
                    <<Ident("__ignore__", CallSite)>>
                    \o CallOf("__head__", <<Ident("my_var", CallSite),
                                            Ident("__s__", CallSite)>>)
                    \o <<Ident("my_var", CallSite)>>,
                    CallSite)>>
    /\ Cardinality(Invokes) = 1
    /\ result = <<StringLit("my_varmy_var")>>

\* the token at position i of ts follows a marker other than dollar
FollowsMarker(ts, i) ==
    IF i > 1
    THEN IsMarker(ts[i - 1]) /\ from_name(ts[i - 1].text, CallSite).tag # "Dollar"
    ELSE FALSE

RECURSIVE PlainGroups(_)
\* how many groups of the stream, at any depth, are no argument group of a
\* marker and lie in no argument group of identity
PlainGroups(ts) ==
    IF ts = <<>> THEN 0
    ELSE LET i == Len(ts)
             t == ts[i]
             here ==
                IF t.kind # "Group" THEN 0
                ELSE IF ~FollowsMarker(ts, i) THEN 1 + PlainGroups(t.stream)
                ELSE IF from_name(ts[i - 1].text, CallSite).tag = "Identity"
                     THEN 0
                     ELSE PlainGroups(t.stream)
         IN  here + PlainGroups(SubSeq(ts, 1, i - 1))

RECURSIVE CountGroups(_)
\* how many groups the stream holds, at any depth
CountGroups(ts) ==
    IF ts = <<>> THEN 0
    ELSE (IF Head(ts).kind = "Group" THEN 1 + CountGroups(Head(ts).stream)
          ELSE 0)
         + CountGroups(Tail(ts))

\* C21 as stated: group reconstruction in the presence of markers.  Every
\* group of the input that is no argument group of a marker and lies in no
\* argument of identity is a group of the output of the call.
C21_GroupsInOutput ==
    pc = "done" /\ FirstPass => CountGroups(result) >= PlainGroups(src)

\* no token of the stream itself is a marker
LevelPlain(ts) == \A i \in 1..Len(ts) : ~IsMarker(ts[i])

\* walked holds, position by position, the tokens of source as they are and
\* for each group of source a group with the same delimiter (and the same
\* contents, when they hold no marker)
SameLevel(walked, source) ==
    /\ Len(walked) = Len(source)
    /\ \A i \in 1..Len(source) :
            IF source[i].kind = "Group"
            THEN /\ walked[i].kind = "Group"
                 /\ walked[i].delimiter = source[i].delimiter
                 /\ ~HasMarker(source[i].stream) =>
                        Unspan(walked[i].stream) = Unspan(source[i].stream)
            ELSE walked[i] = source[i]

\* the state part of C21: the groups at the top of the input are groups of
\* the result, and the groups at the top of a marker's argument group are
\* groups of the stream its builtin is given, each with its delimiter and
\* among the same siblings; and the result of a call on a marker and its
\* group is what the builtin returns, whatever the delimiter of the group
GroupsKept ==
    /\ pc = "done" /\ LevelPlain(src) => SameLevel(result, src)
    /\ \A j \in Invokes :
            LET g == TokenAt(src, log[j].group)
                walked == IF log[j].tag = "ToCase"
                          THEN SubSeq(log[j].arg, 3, Len(log[j].arg))
                          ELSE log[j].arg
            IN  LevelPlain(g.stream) => SameLevel(walked, g.stream)
    /\ /\ pc = "done" /\ Len(src) = 2 /\ IsMarker(src[1])
       /\ from_name(src[1].text, CallSite).tag \notin {"Dollar", "Identity"}
       /\ src[2].kind = "Group" /\ DollarOnly(src[2].stream)
       => LET m == from_name(src[1].text, src[1].span)
              given == IF m.tag = "ToCase"
                       THEN <<StringLit(trim_matches(src[1].text, "_")),
                              Comma>> \o Resolved(src[2].stream)
                       ELSE Resolved(src[2].stream)
          IN  result = invoke(m, given).out

\* the step part of C21: when the frame of a plain group ends, the parent's
\* accumulator gets one group with the delimiter of that group of the
\* input around the accumulator of the frame; when the frame of a marker
\* ends, it gets what the builtin returns and no group
GroupRebuilt ==
    /\ AtEnd /\ Top.m = NoMacro /\ Len(input) > 1 =>
            /\ res' = Extend(Pop(res),
                    <<Group(TokenAt(src, origin[Len(origin)].group).delimiter,
                            res[Len(res)], CallSite)>>)
            /\ input' = Pop(input)
    /\ AtEnd /\ Top.m # NoMacro /\ pc' # "panic" =>
            /\ res' = Extend(Pop(res), invoke(Top.m, res[Len(res)]).out)
            /\ input' = Pop(input)

\* C21 amended: a group of the input that is no argument group of a marker
\* is rebuilt as exactly one group with the same delimiter around the
\* rewritten form of its contents, in the accumulator of the enclosing
\* frame, among the same siblings: that is the result of the call for a
\* group at the top of the input, and the stream given to the builtin for a
\* group inside a marker's argument group.  A marker's argument group is
\* never rebuilt, and its delimiter has no effect on the result.
C21_GroupRebuild == []GroupsKept /\ [][GroupRebuilt]_vars

\* the call on { __ignore__ __head__ (my_var __s__) my_var } has returned
\* the brace group around my_var $ my_var
C21_Witness ==
    /\ pc = "done"
    /\ Len(src) = 1 /\ src[1].kind = "Group" /\ src[1].delimiter = "Brace"
    /\ Len(src[1].stream) = 4
    /\ src[1].stream[3].kind = "Group"
    /\ Unspan(result) =
            <<Group("Brace",
                    <<Ident("my_var", CallSite), Dollar,
                      Ident("my_var", CallSite)>>, CallSite)>>
====
